---- MODULE Spec2Model ----
(***************************************************************************)
(* A model of the LaPair IR framework: the use-def graph of               *)
(* lapair/core/ir.py (Instruction operands and Value users), the block    *)
(* edge sets of BasicBlock, and the worklist dataflow engine of           *)
(* lapair/analysis/data_flow.py with its four analyses.                   *)
(***************************************************************************)
EXTENDS Integers, Sequences, FiniteSets, TLC

VARIABLES
    \* ---- use-def graph (core/ir.py, Value and Instruction) ----
    operands,       \* Instruction.operands : instruction -> list of values
    users,          \* Value.users          : value -> set of instructions
    raised,         \* the exception the last mutator call ended with, or "none"
    \* ---- block edges (core/ir.py, BasicBlock) ----
    predecessors,   \* BasicBlock.predecessors : block -> set of blocks
    successors,     \* BasicBlock.successors   : block -> set of blocks
    \* ---- dataflow engine (analysis/data_flow.py, DataFlowAnalysis) ----
    function,       \* DataFlowAnalysis.function : the blocks, their instructions and edges
    cfg,            \* DataFlowAnalysis.cfg : the ControlFlowGraph built from function
    analysis,       \* the class of the analysis object
    in_sets,        \* DataFlowAnalysis.in_sets  : node -> element
    out_sets,       \* DataFlowAnalysis.out_sets : node -> element
    killed_vars,    \* AvailableExpressionsAnalysis.killed_vars : node -> set of names
    var_versions,   \* AvailableExpressionsAnalysis.var_versions
    worklist,       \* the local worklist of analyze()
    calls,          \* how many analyze() calls were started on the object
    steps,          \* the loop iterations (pops) of the call in progress, counted
    pops,           \* the nodes the first analyze() call popped, in order
    first,          \* in_sets and out_sets as the first analyze() call returned them
    \* ---- ControlFlowGraph.traverse (analysis/control_flow.py), its locals ----
    stack,          \* the list of nodes still to pop
    visited,        \* the set of nodes already visited
    traversal_order,\* the list under construction, the return value
    \* ---- symbol table (core/symbol.py) ----
    scopes,         \* Scope objects : scope -> name, parent, children, symbols
    symbols,        \* Symbol objects : symbol -> name, scope
    current_scope,  \* SymbolTable.current_scope
    global_scope,   \* SymbolTable.global_scope
    \* ---- type system (core/types.py) ----
    types,          \* TypeSystem.types : dict name -> Type object
    type_name,      \* Type.name of the Type objects created so far
    \* ---- containers (core/ir.py, IR, Module and Function) ----
    modules,        \* IR.modules : dict name -> Module object
    functions,      \* Module.functions : dict name -> Function object
    global_variables, \* Module.global_variables : dict name -> Value object
    symbol_table,   \* Module.symbol_table : dict name -> Value object
    blocks,         \* Function.blocks : list of BasicBlock objects
    parent,         \* the parent field of the Module, Function, BasicBlock and
                    \* Instruction objects
    instructions,   \* BasicBlock.instructions : block -> list of Instruction objects
    \* ---- typed instructions (core/instructions.py) ----
    attrs,          \* instruction -> its class and the accessor fields of the class
    \* ---- frontend diagnostics (frontends/common/frontend.py) ----
    errors,         \* the errors list of the Frontend and of its Parser
    warnings,       \* the warnings list of the Frontend and of its Parser
    \* ---- the caller's view ----
    call            \* the last call made: operation, arguments and return value

irVars  == <<operands, users, raised>>
cfgVars == <<predecessors, successors>>
dfVars  == <<function, cfg, analysis, in_sets, out_sets, killed_vars,
             var_versions, worklist, calls, steps, pops, first>>
trVars  == <<stack, visited, traversal_order>>
symVars == <<scopes, symbols, current_scope, global_scope>>
tyVars  == <<types, type_name>>
ctVars  == <<modules, functions, global_variables, symbol_table, blocks, parent,
             instructions>>
feVars  == <<errors, warnings>>
restVars == <<trVars, symVars, tyVars, ctVars, attrs, feVars, call>>
vars    == <<operands, users, raised, predecessors, successors,
             function, cfg, analysis, in_sets, out_sets, killed_vars,
             var_versions, worklist, calls, steps, pops, first,
             stack, visited, traversal_order, scopes, symbols, current_scope,
             global_scope,
             types, type_name, modules, functions, global_variables,
             symbol_table, blocks, parent, instructions, attrs, errors, warnings, call>>

(***************************************************************************)
(* Bounds of the model.                                                    *)
(***************************************************************************)
NumInstrs   == 2    \* Instruction objects of the use-def model
NumPlain    == 1    \* Value objects that are not instructions
MaxOperands == 3    \* longest operand list explored
NumBlocks   == 3    \* BasicBlock objects; blocks of an analysed function
NumEntities == 4    \* modules, functions and global variables that may be inserted
MaxEdges    == 4    \* successor edges of an analysed function
MaxBlockList == 4   \* longest Function.blocks list built by add_block
TraverseBlocks == 4 \* blocks of a function whose graph is traversed
TraverseEdges == 4  \* successor edges of a function whose graph is traversed
MaxScopes   == 3    \* Scope objects of a symbol table, the global scope included
MaxSymbols  == 4    \* Symbol objects created by add_symbol
MaxCreated  == 3    \* Type objects created by the factories of a TypeSystem
RerunEdges  == 2    \* successor edges of a function analysed twice
CountedEdges == 3   \* successor edges of a function whose pops are counted

\* Object identities.  Instructions are values (class Instruction(Value)).
Instrs == 1..NumInstrs
Values == 1..(NumInstrs + NumPlain)
Blocks == 1..NumBlocks

(***************************************************************************)
(* Python list helpers.                                                    *)
(***************************************************************************)
Range(s) == {s[k] : k \in 1..Len(s)}

\* index of the first position of s holding v (list.remove / list.index)
FirstIndex(s, v) == CHOOSE k \in 1..Len(s) : s[k] = v /\ \A j \in 1..(k-1) : s[j] # v

\* s without its position k
RemoveAt(s, k) == [j \in 1..(Len(s)-1) |-> IF j < k THEN s[j] ELSE s[j+1]]

(***************************************************************************)
(* Value.add_user and the three operand mutators of Instruction.           *)
(***************************************************************************)
\* Value.add_user(instr): self.users.add(instr)
add_user(usrs, v, i) == [usrs EXCEPT ![v] = @ \cup {i}]

\* set.discard
discard_user(usrs, v, i) == [usrs EXCEPT ![v] = @ \ {i}]

\* Instruction.add_operand(value): append, then value.add_user(self)
add_operand(i, v) ==
    /\ Len(operands[i]) < MaxOperands
    /\ operands' = [operands EXCEPT ![i] = Append(@, v)]
    /\ users' = add_user(users, v, i)
    /\ raised' = "none"

\* the for loop of replace_operand from position idx on, over the running
\* operand list ops of instruction i and the running users map
RECURSIVE replace_loop(_, _, _, _, _, _)
replace_loop(i, old, new, idx, ops, usrs) ==
    IF idx > Len(ops) THEN <<ops, usrs>>
    ELSE IF ops[idx] = old
         THEN replace_loop(i, old, new, idx + 1,
                           [ops EXCEPT ![idx] = new],
                           add_user(discard_user(usrs, old, i), new, i))
         ELSE replace_loop(i, old, new, idx + 1, ops, usrs)

\* Instruction.replace_operand(old_value, new_value)
replace_operand(i, old, new) ==
    LET r == replace_loop(i, old, new, 1, operands[i], users)
    IN  /\ operands' = [operands EXCEPT ![i] = r[1]]
        /\ users' = r[2]
        /\ raised' = "none"

\* Instruction.remove_operand(value): list.remove raises ValueError when the
\* value is absent (nothing has been changed yet); otherwise the first
\* occurrence goes and then value.users.discard(self)
remove_operand(i, v) ==
    IF v \notin Range(operands[i])
    THEN /\ raised' = "ValueError"
         /\ UNCHANGED <<operands, users>>
    ELSE /\ operands' = [operands EXCEPT ![i] = RemoveAt(@, FirstIndex(@, v))]
         /\ users' = discard_user(users, v, i)
         /\ raised' = "none"

(***************************************************************************)
(* The four edge mutators of BasicBlock.                                   *)
(***************************************************************************)
\* BasicBlock.add_predecessor(pred)
add_predecessor(b, pred) ==
    /\ predecessors' = [predecessors EXCEPT ![b] = @ \cup {pred}]
    /\ successors' = [successors EXCEPT ![pred] = @ \cup {b}]

\* BasicBlock.add_successor(succ)
add_successor(b, succ) ==
    /\ successors' = [successors EXCEPT ![b] = @ \cup {succ}]
    /\ predecessors' = [predecessors EXCEPT ![succ] = @ \cup {b}]

\* BasicBlock.remove_predecessor(pred)
remove_predecessor(b, pred) ==
    /\ predecessors' = [predecessors EXCEPT ![b] = @ \ {pred}]
    /\ successors' = [successors EXCEPT ![pred] = @ \ {b}]

\* a remove_successor that forgets the mirror side
remove_successor_one_sided(b, succ) ==
    /\ successors' = [successors EXCEPT ![b] = @ \ {succ}]
    /\ predecessors' = predecessors

\* BasicBlock.remove_successor(succ)
remove_successor(b, succ) ==
    /\ successors' = [successors EXCEPT ![b] = @ \ {succ}]
    /\ predecessors' = [predecessors EXCEPT ![succ] = @ \ {b}]

(***************************************************************************)
(* Python values of the dataflow engine.  A dict and a set are never equal *)
(* in Python, also when both are empty, so an element carries its type:    *)
(* a set holds its members, a dict holds its <<key, value>> items.         *)
(***************************************************************************)
PySet(items)  == [t |-> "set", items |-> items]
PyDict(items) == [t |-> "dict", items |-> items]

Keys(d) == {p[1] : p \in d.items}

\* dict.get(key, default)
Get(d, key, default) ==
    IF key \in Keys(d) THEN (CHOOSE p \in d.items : p[1] = key)[2] ELSE default

\* d.setdefault(key, value): an entry already present is kept
Put_keeps_first(d, key, value) ==
    IF key \in Keys(d) THEN d ELSE PyDict(d.items \cup {<<key, value>>})

\* d[key] = value
Put(d, key, value) == PyDict({p \in d.items : p[1] # key} \cup {<<key, value>>})

\* what iterating an element yields: a set's members, a dict's keys
Members(e) == IF e.t = "dict" THEN Keys(e) ELSE e.items

\* the nodes of a set as a list in ascending order
RECURSIVE SetToSeq(_)
SetToSeq(S) ==
    IF S = {} THEN <<>>
    ELSE LET m == CHOOSE x \in S : \A y \in S : x <= y
         IN  <<m>> \o SetToSeq(S \ {m})

(***************************************************************************)
(* Instructions as the analyses see them: the class, the name ("" for no   *)
(* name) and the operand list.  Of an operand the analyses read only       *)
(* whether it is an Instruction, a Constant or a plain Value, its name and *)
(* (of a Constant) its value.                                              *)
(***************************************************************************)
Operand(kind, name, value) == [kind |-> kind, name |-> name, value |-> value]
Const(value) == Operand("Constant", "", value)
Ref(name)    == Operand("Instruction", name, 0)
Plain(name)  == Operand("Value", name, 0)

Instr(cls, name, ops) == [cls |-> cls, name |-> name, operands |-> ops]

\* the names of the model in the order Python's sorted() puts them
NameOrder == <<"a", "b", "c", "const_1", "const_2", "d", "e", "x", "y">>

Rank(name) == CHOOSE k \in 1..Len(NameOrder) : NameOrder[k] = name

\* a sorted() that returns the names in the order given
sorted_keeps_order(names) == names

\* sorted(names): insertion of names[k] into the sorted list of the rest
RECURSIVE sorted(_)
sorted(names) ==
    IF names = <<>> THEN <<>>
    ELSE LET rest == sorted(Tail(names))
             x    == Head(names)
             pos  == Cardinality({j \in 1..Len(rest) : Rank(rest[j]) < Rank(x)})
         IN  SubSeq(rest, 1, pos) \o <<x>> \o SubSeq(rest, pos + 1, Len(rest))

\* Expression.OPERATOR_MAP.get(instruction.__class__)
OPERATOR_MAP(cls) ==
    CASE cls = "AddInstruction"    -> "add"
      [] cls = "MulInstruction"    -> "multiply"
      [] cls = "AssignInstruction" -> "assign"
      [] OTHER                     -> "None"

\* the result of from_instruction when it returns None
None == [operator |-> "None", operands |-> <<>>]

\* the token an operand contributes to an expression, "None" when it
\* disqualifies the expression
operand_name(o) ==
    IF o.kind = "Instruction" /\ o.name # "" THEN o.name
    ELSE IF o.kind = "Constant" THEN "const_" \o ToString(o.value)
    ELSE "None"

\* Expression.from_instruction(instruction)
from_instruction(instruction) ==
    IF Len(instruction.operands) <= 1 THEN None
    ELSE IF OPERATOR_MAP(instruction.cls) = "None" THEN None
    ELSE LET operand_names == [k \in 1..Len(instruction.operands) |->
                                   operand_name(instruction.operands[k])]
         IN  IF \E k \in 1..Len(operand_names) : operand_names[k] = "None"
             THEN None
             ELSE [operator |-> OPERATOR_MAP(instruction.cls),
                   operands |-> sorted(operand_names)]

(***************************************************************************)
(* ControlFlowGraph.build_cfg: one node per block (a node is identified    *)
(* with the index of its block in function.blocks); the node edges follow  *)
(* block.successors, and each edge is mirrored into the target's           *)
(* predecessors.                                                           *)
(***************************************************************************)
\* build_cfg without "succ_node.predecessors.add(node)"
build_cfg_without_predecessors(fn) ==
    LET nodes == DOMAIN fn.blocks
    IN  [successors   |-> [n \in nodes |-> fn.blocks[n].successors],
         predecessors |-> [n \in nodes |-> {}]]

\* build_cfg that takes each node's predecessors from block.predecessors
build_cfg_reads_block_predecessors(fn) ==
    LET nodes == DOMAIN fn.blocks
    IN  [successors   |-> [n \in nodes |-> fn.blocks[n].successors],
         predecessors |-> [n \in nodes |-> fn.blocks[n].predecessors \cap nodes]]

\* ControlFlowGraph.build_cfg()
build_cfg(fn) ==
    LET nodes == DOMAIN fn.blocks
    IN  [successors   |-> [n \in nodes |-> fn.blocks[n].successors],
         predecessors |-> [n \in nodes |-> {m \in nodes : n \in fn.blocks[m].successors}]]

\* ControlFlowGraph.get_nodes()
get_nodes(g) == DOMAIN g.successors

(***************************************************************************)
(* The four analyses: is_forward, initial_data, flow_function and          *)
(* meet_operator of each class.                                            *)
(***************************************************************************)
\* is_forward(): only LiveVariableAnalysis overrides it to False
is_forward(an) == an # "LiveVariable"

\* initial_data(): the base class and ConstantPropagation return the dict
\* {}; only AvailableExpressions returns set()
initial_data(an) == IF an = "AvailableExpressions" THEN PySet({}) ELSE PyDict({})

\* ---- ReachingDefinitionsAnalysis ----
\* the loop of flow_function over the instructions from position k on; the
\* definition made by instruction k of block node is <<name, <<node, k>>>>
RECURSIVE RD_loop(_, _, _, _, _, _)
RD_loop(node, instrs, k, out_set, kill_set, gen_set) ==
    IF k > Len(instrs) THEN [kill |-> kill_set, gen |-> gen_set]
    ELSE IF instrs[k].name # ""
         THEN RD_loop(node, instrs, k + 1, out_set,
                      kill_set \cup {d \in out_set : d[1] = instrs[k].name},
                      gen_set \cup {<<instrs[k].name, <<node, k>>>>})
         ELSE RD_loop(node, instrs, k + 1, out_set, kill_set, gen_set)

\* a flow_function that generates but kills nothing
RD_flow_function_without_kill(fn, node, in_set) ==
    LET out_set == Members(in_set)
        r == RD_loop(node, fn.blocks[node].instructions, 1, out_set, {}, {})
    IN  PySet(out_set \cup r.gen)

RD_flow_function(fn, node, in_set) ==
    LET out_set == Members(in_set)
        r == RD_loop(node, fn.blocks[node].instructions, 1, out_set, {}, {})
    IN  PySet((out_set \ r.kill) \cup r.gen)

\* union of the given elements (set.update of a dict adds its keys)
RD_meet_operator(sets) == PySet(UNION {Members(sets[k]) : k \in 1..Len(sets)})

\* ---- LiveVariableAnalysis ----
get_used_variables(instruction) ==
    {instruction.operands[k].name : k \in 1..Len(instruction.operands)} \ {""}

\* a loop that adds the used names before it removes the defined name
RECURSIVE LV_loop_gen_before_kill(_, _, _)
LV_loop_gen_before_kill(instrs, k, in_set) ==
    IF k = 0 THEN in_set
    ELSE LET added == in_set \cup get_used_variables(instrs[k])
         IN  LV_loop_gen_before_kill(instrs, k - 1,
                 IF instrs[k].name # "" THEN added \ {instrs[k].name} ELSE added)

\* the loop of flow_function over reversed(instructions), at position k
RECURSIVE LV_loop(_, _, _)
LV_loop(instrs, k, in_set) ==
    IF k = 0 THEN in_set
    ELSE LET discarded == IF instrs[k].name # "" THEN in_set \ {instrs[k].name}
                          ELSE in_set
         IN  LV_loop(instrs, k - 1, discarded \cup get_used_variables(instrs[k]))

LV_flow_function(fn, node, out_set) ==
    LET instrs == fn.blocks[node].instructions
    IN  PySet(LV_loop(instrs, Len(instrs), Members(out_set)))

LV_meet_operator(sets) == PySet(UNION {Members(sets[k]) : k \in 1..Len(sets)})

\* ---- AvailableExpressionsAnalysis ----
\* the names flow_function stores in self.killed_vars[node]
AE_killed(fn, node) ==
    LET instrs == fn.blocks[node].instructions
    IN  {instrs[k].name : k \in 1..Len(instrs)} \ {""}

\* whether expression expr has an operand in the set names
uses_any(expr, names) == \E j \in 1..Len(expr.operands) : expr.operands[j] \in names

\* a flow_function that adds the new expressions before it removes the
\* expressions over killed names
AE_flow_function_kills_new(fn, node, in_set) ==
    LET instrs == fn.blocks[node].instructions
        killed == AE_killed(fn, node)
        new    == {from_instruction(instrs[k]) : k \in 1..Len(instrs)} \ {None}
    IN  PySet({expr \in in_set.items \cup new : ~uses_any(expr, killed)})

AE_flow_function(fn, node, in_set) ==
    LET instrs == fn.blocks[node].instructions
        killed == AE_killed(fn, node)
        kept   == {expr \in in_set.items : ~uses_any(expr, killed)}
        new    == {from_instruction(instrs[k]) : k \in 1..Len(instrs)} \ {None}
    IN  PySet(kept \cup new)

\* the union of killed_vars over the nodes recorded in it
all_killed_vars(g, killed) ==
    UNION {killed[n] : n \in get_nodes(g) \cap DOMAIN killed}

AE_meet_operator(g, killed, sets) ==
    IF Len(sets) = 0 THEN PySet({})
    ELSE IF Len(sets) = 1 THEN PySet(sets[1].items)
    ELSE LET common == {expr \in sets[1].items :
                            \A k \in 2..Len(sets) : expr \in sets[k].items}
         IN  PySet({expr \in common : ~uses_any(expr, all_killed_vars(g, killed))})

\* ---- ConstantPropagationAnalysis ----
\* a status read from the in map only, whatever the block has written
operand_status_from_in_set(out_set, in_set, name) == Get(in_set, name, "TOP")

\* out_set.get(operand.name, in_set.get(operand.name, TOP))
operand_status(out_set, in_set, name) == Get(out_set, name, Get(in_set, name, "TOP"))

\* the status flow_function writes for instruction i, "unset" when it
\* writes none (one operand that is neither a Constant nor a named
\* Instruction)
CP_status(i, out_set, in_set) ==
    IF Len(i.operands) = 1
    THEN LET operand == i.operands[1]
         IN  IF operand.kind = "Constant" THEN "CONST"
             ELSE IF operand.kind = "Instruction" /\ operand.name # ""
                  THEN operand_status(out_set, in_set, operand.name)
                  ELSE "unset"
    ELSE IF Len(i.operands) > 1
    THEN IF \A k \in 1..Len(i.operands) :
                \/ i.operands[k].kind = "Constant"
                \/ /\ i.operands[k].kind = "Instruction"
                   /\ i.operands[k].name # ""
                   /\ operand_status(out_set, in_set, i.operands[k].name) = "CONST"
         THEN "CONST" ELSE "TOP"
    ELSE "TOP"

\* the loop of flow_function over the instructions from position k on
RECURSIVE CP_loop(_, _, _, _)
CP_loop(instrs, k, out_set, in_set) ==
    IF k > Len(instrs) THEN out_set
    ELSE IF instrs[k].name # "" /\ CP_status(instrs[k], out_set, in_set) # "unset"
         THEN CP_loop(instrs, k + 1,
                      Put(out_set, instrs[k].name, CP_status(instrs[k], out_set, in_set)),
                      in_set)
         ELSE CP_loop(instrs, k + 1, out_set, in_set)

\* the closing loop of flow_function: values of in_set for the names that no
\* instruction of the block defines are written again
RECURSIVE CP_preserve(_, _, _)
CP_preserve(out_set, todo, defined_vars) ==
    IF todo = {} THEN out_set
    ELSE LET p == CHOOSE q \in todo : TRUE
         IN  CP_preserve(IF p[1] \notin defined_vars THEN Put(out_set, p[1], p[2])
                         ELSE out_set,
                         todo \ {p}, defined_vars)

CP_flow_function(fn, node, in_set) ==
    LET instrs == fn.blocks[node].instructions
        defined_vars == {instrs[k].name : k \in 1..Len(instrs)} \ {""}
    IN  CP_preserve(CP_loop(instrs, 1, in_set, in_set), in_set.items, defined_vars)

\* a meet that lets a key missing from a dict agree with every value
CP_meet_operator_skips_absent(sets) ==
    IF Len(sets) = 0 THEN PyDict({})
    ELSE LET all_keys == UNION {Keys(sets[k]) : k \in 1..Len(sets)}
             held(key) == {Get(sets[k], key, "TOP") :
                              k \in {j \in 1..Len(sets) : key \in Keys(sets[j])}}
         IN  PyDict({<<key, IF Cardinality(held(key)) = 1
                            THEN CHOOSE x \in held(key) : TRUE ELSE "TOP">> : key \in all_keys})

CP_meet_operator(sets) ==
    IF Len(sets) = 0 THEN PyDict({})
    ELSE LET all_keys == UNION {Keys(sets[k]) : k \in 1..Len(sets)}
             values(key) == [k \in 1..Len(sets) |-> Get(sets[k], key, "TOP")]
         IN  PyDict({<<key, IF \A k \in 1..Len(sets) : values(key)[k] = values(key)[1]
                            THEN values(key)[1] ELSE "TOP">> : key \in all_keys})

\* ---- dispatch on the class of the analysis object ----
flow_function(an, fn, node, data_set) ==
    CASE an = "ReachingDefinitions"  -> RD_flow_function(fn, node, data_set)
      [] an = "LiveVariable"         -> LV_flow_function(fn, node, data_set)
      [] an = "AvailableExpressions" -> AE_flow_function(fn, node, data_set)
      [] an = "ConstantPropagation"  -> CP_flow_function(fn, node, data_set)

meet_operator(an, g, killed, sets) ==
    CASE an = "ReachingDefinitions"  -> RD_meet_operator(sets)
      [] an = "LiveVariable"         -> LV_meet_operator(sets)
      [] an = "AvailableExpressions" -> AE_meet_operator(g, killed, sets)
      [] an = "ConstantPropagation"  -> CP_meet_operator(sets)

(***************************************************************************)
(* DataFlowAnalysis.initialize and the body of the while loop of           *)
(* DataFlowAnalysis.analyze, on the analysis state                         *)
(*   st = [in_sets, out_sets, killed_vars, var_versions, worklist].        *)
(***************************************************************************)
\* dict[key] = value on a dict held as a function
Store(f, key, value) ==
    [k \in DOMAIN f \cup {key} |-> IF k = key THEN value ELSE f[k]]

\* an initialize() that leaves killed_vars as the last run filled it
initialize_keeps_killed_vars(an, g, st) ==
    [in_sets  |-> [n \in get_nodes(g) |-> initial_data(an)],
     out_sets |-> [n \in get_nodes(g) |-> initial_data(an)],
     killed_vars  |-> st.killed_vars,
     var_versions |-> <<>>,
     worklist |-> st.worklist]

\* initialize(): every node of the cfg gets initial_data() in both maps;
\* AvailableExpressionsAnalysis.initialize also empties var_versions and
\* killed_vars
initialize(an, g, st) ==
    [in_sets  |-> [n \in DOMAIN st.in_sets \cup get_nodes(g) |->
                      IF n \in get_nodes(g) THEN initial_data(an) ELSE st.in_sets[n]],
     out_sets |-> [n \in DOMAIN st.out_sets \cup get_nodes(g) |->
                      IF n \in get_nodes(g) THEN initial_data(an) ELSE st.out_sets[n]],
     killed_vars  |-> IF an = "AvailableExpressions" THEN <<>> ELSE st.killed_vars,
     var_versions |-> IF an = "AvailableExpressions" THEN <<>> ELSE st.var_versions,
     worklist |-> st.worklist]

\* [sets[n] for n in neighbors] if neighbors else [initial_data()]; the meet
\* operators do not depend on the order of the list, which is taken ascending
neighbor_sets(an, neighbors, sets) ==
    IF neighbors # {}
    THEN LET order == SetToSeq(neighbors)
         IN  [k \in 1..Len(order) |-> sets[order[k]]]
    ELSE <<initial_data(an)>>

\* killed_vars after flow_function(node, ...): only AvailableExpressions
\* records the names defined in the node's block
record_killed(an, fn, killed, node) ==
    IF an = "AvailableExpressions" THEN Store(killed, node, AE_killed(fn, node))
    ELSE killed

\* an iteration that enqueues the neighbours whether or not the set changed
visit_always_enqueues(an, fn, g, st, node) ==
    LET forward   == is_forward(an)
        neighbors == IF forward THEN g.predecessors[node] ELSE g.successors[node]
        meet_result == meet_operator(an, g, st.killed_vars,
                           neighbor_sets(an, neighbors,
                                         IF forward THEN st.out_sets ELSE st.in_sets))
        flowed == flow_function(an, fn, node, meet_result)
    IN  [in_sets  |-> [st.in_sets EXCEPT ![node] = IF forward THEN meet_result ELSE flowed],
         out_sets |-> [st.out_sets EXCEPT ![node] = IF forward THEN flowed ELSE meet_result],
         killed_vars  |-> record_killed(an, fn, st.killed_vars, node),
         var_versions |-> st.var_versions,
         worklist |-> (st.worklist \ {node})
                          \cup (IF forward THEN g.successors[node] ELSE g.predecessors[node])]

\* an iteration that never enqueues the neighbours
visit_never_enqueues(an, fn, g, st, node) ==
    LET forward   == is_forward(an)
        neighbors == IF forward THEN g.predecessors[node] ELSE g.successors[node]
        meet_result == meet_operator(an, g, st.killed_vars,
                           neighbor_sets(an, neighbors,
                                         IF forward THEN st.out_sets ELSE st.in_sets))
        flowed == flow_function(an, fn, node, meet_result)
    IN  [in_sets  |-> [st.in_sets EXCEPT ![node] = IF forward THEN meet_result ELSE flowed],
         out_sets |-> [st.out_sets EXCEPT ![node] = IF forward THEN flowed ELSE meet_result],
         killed_vars  |-> record_killed(an, fn, st.killed_vars, node),
         var_versions |-> st.var_versions,
         worklist |-> st.worklist \ {node}]

\* an iteration that does not enqueue the node itself when it is its own
\* neighbour
visit_skips_self_loop(an, fn, g, st, node) ==
    LET forward   == is_forward(an)
        neighbors == IF forward THEN g.predecessors[node] ELSE g.successors[node]
        meet_result == meet_operator(an, g, st.killed_vars,
                           neighbor_sets(an, neighbors,
                                         IF forward THEN st.out_sets ELSE st.in_sets))
        flowed == flow_function(an, fn, node, meet_result)
        old    == IF forward THEN st.out_sets[node] ELSE st.in_sets[node]
    IN  [in_sets  |-> [st.in_sets EXCEPT ![node] = IF forward THEN meet_result ELSE flowed],
         out_sets |-> [st.out_sets EXCEPT ![node] = IF forward THEN flowed ELSE meet_result],
         killed_vars  |-> record_killed(an, fn, st.killed_vars, node),
         var_versions |-> st.var_versions,
         worklist |-> IF flowed # old
                      THEN (st.worklist \cup (IF forward THEN g.successors[node]
                                              ELSE g.predecessors[node])) \ {node}
                      ELSE st.worklist \ {node}]

\* one iteration of the while loop once worklist.pop() has returned node
visit(an, fn, g, st, node) ==
    LET popped == st.worklist \ {node}
    IN  IF is_forward(an)
        THEN LET neighbors   == g.predecessors[node]
                 meet_result == meet_operator(an, g, st.killed_vars,
                                    neighbor_sets(an, neighbors, st.out_sets))
                 old_out_set == st.out_sets[node]
                 new_out_set == flow_function(an, fn, node, meet_result)
             IN  [in_sets  |-> [st.in_sets EXCEPT ![node] = meet_result],
                  out_sets |-> [st.out_sets EXCEPT ![node] = new_out_set],
                  killed_vars  |-> record_killed(an, fn, st.killed_vars, node),
                  var_versions |-> st.var_versions,
                  worklist |-> IF new_out_set # old_out_set
                               THEN popped \cup g.successors[node] ELSE popped]
        ELSE LET neighbors   == g.successors[node]
                 meet_result == meet_operator(an, g, st.killed_vars,
                                    neighbor_sets(an, neighbors, st.in_sets))
                 old_in_set  == st.in_sets[node]
                 new_in_set  == flow_function(an, fn, node, meet_result)
             IN  [in_sets  |-> [st.in_sets EXCEPT ![node] = new_in_set],
                  out_sets |-> [st.out_sets EXCEPT ![node] = meet_result],
                  killed_vars  |-> record_killed(an, fn, st.killed_vars, node),
                  var_versions |-> st.var_versions,
                  worklist |-> IF new_in_set # old_in_set
                               THEN popped \cup g.predecessors[node] ELSE popped]

\* the analysis state held in the variables
State == [in_sets |-> in_sets, out_sets |-> out_sets, killed_vars |-> killed_vars,
          var_versions |-> var_versions, worklist |-> worklist]

SetState(st) ==
    /\ in_sets' = st.in_sets
    /\ out_sets' = st.out_sets
    /\ killed_vars' = st.killed_vars
    /\ var_versions' = st.var_versions
    /\ worklist' = st.worklist

\* the state in which the while loop of analyze() starts: initialize(), then
\* worklist = set(self.cfg.get_nodes())
analyze_entry(an, g, st) == [initialize(an, g, st) EXCEPT !.worklist = get_nodes(g)]

\* analyze() run to its return with the worklist popping its least node
RECURSIVE run_least(_, _, _, _)
run_least(an, fn, g, st) ==
    IF st.worklist = {} THEN st
    ELSE run_least(an, fn, g,
                   visit(an, fn, g, st, CHOOSE n \in st.worklist : \A m \in st.worklist : n <= m))

(***************************************************************************)
(* The functions analysed: every graph of NumBlocks blocks with at most    *)
(* MaxEdges successor edges (self-loops, cycles, joins and unreachable     *)
(* blocks included), each block holding one of the bodies listed for the   *)
(* analysis, and the diamond scenario of the analysis' test.               *)
(***************************************************************************)
Block(instrs, succs, preds) ==
    [instructions |-> instrs, successors |-> succs, predecessors |-> preds]

\* a function from its blocks' bodies and successor sets, the predecessor
\* sets mirroring them
MakeFunction(bodies, succs) ==
    [blocks |-> [b \in DOMAIN bodies |->
        Block(bodies[b], succs[b], {a \in DOMAIN bodies : b \in succs[a]})]]

\* the successor edges of a graph
Edges(succs) == {e \in (DOMAIN succs) \X (DOMAIN succs) : e[2] \in succs[e[1]]}

Graphs == {succs \in [Blocks -> SUBSET Blocks] : Cardinality(Edges(succs)) <= MaxEdges}

\* entry -> {block1, block2} -> exit, the graph of the four analysis tests
DiamondEdges == <<{2, 3}, {4}, {4}, {}>>

Def(name) == Instr("Instruction", name, <<>>)
Use(name) == Instr("Instruction", "", <<Ref(name)>>)

RD_Bodies == {<<>>, <<Def("a")>>, <<Def("b")>>, <<Def("a"), Def("a")>>}

RD_Scenario ==
    MakeFunction(<< <<Def("a")>>, <<Def("b")>>, <<Def("a")>>, <<>> >>, DiamondEdges)

LV_Bodies ==
    {<<>>, <<Def("a")>>, <<Use("a")>>, <<Use("a"), Def("a")>>,
     <<Instr("Instruction", "a", <<Ref("a")>>)>>}

LV_Scenario ==
    MakeFunction(<< <<Def("a"), Use("a")>>, <<Def("b"), Use("b")>>, <<Use("a")>>, <<>> >>,
                 DiamondEdges)

AE_Bodies ==
    {<<>>,
     <<Instr("AddInstruction", "a", <<Ref("x"), Ref("y")>>)>>,
     <<Instr("AssignInstruction", "x", <<Const(1)>>)>>,
     <<Instr("AddInstruction", "x", <<Ref("y"), Ref("x")>>)>>,
     <<Instr("AddInstruction", "a", <<Ref("x"), Ref("y")>>),
       Instr("AssignInstruction", "x", <<Const(1)>>)>>}

AE_Scenario ==
    MakeFunction(
        << <<Instr("AssignInstruction", "x", <<Const(1)>>),
             Instr("AssignInstruction", "y", <<Const(2)>>)>>,
           <<Instr("AddInstruction", "a", <<Ref("x"), Ref("y")>>),
             Instr("MulInstruction", "b", <<Ref("x"), Ref("y")>>)>>,
           <<Instr("AssignInstruction", "x", <<Const(2)>>),
             Instr("AddInstruction", "c", <<Ref("x"), Ref("y")>>)>>,
           <<>> >>, DiamondEdges)

CP_Bodies ==
    {<<>>,
     <<Instr("Instruction", "a", <<Const(1)>>)>>,
     <<Instr("Instruction", "b", <<Ref("a")>>)>>,
     <<Instr("Instruction", "a", <<>>)>>}

CP_Scenario ==
    MakeFunction(
        << <<Instr("Instruction", "a", <<Const(1)>>),
             Instr("Instruction", "b", <<Ref("a")>>)>>,
           <<Instr("Instruction", "c", <<Const(2)>>),
             Instr("Instruction", "d", <<Ref("b"), Ref("c")>>)>>,
           <<Instr("Instruction", "e", <<>>)>>,
           <<>> >>, DiamondEdges)

Bodies(an) ==
    CASE an = "ReachingDefinitions"  -> RD_Bodies
      [] an = "LiveVariable"         -> LV_Bodies
      [] an = "AvailableExpressions" -> AE_Bodies
      [] an = "ConstantPropagation"  -> CP_Bodies

Scenario(an) ==
    CASE an = "ReachingDefinitions"  -> RD_Scenario
      [] an = "LiveVariable"         -> LV_Scenario
      [] an = "AvailableExpressions" -> AE_Scenario
      [] an = "ConstantPropagation"  -> CP_Scenario

Functions(an) ==
    {MakeFunction(bodies, succs) : bodies \in [Blocks -> Bodies(an)], succs \in Graphs}
        \cup {Scenario(an)}

(***************************************************************************)
(* The objects outside the use-def graph, the block edges and the dataflow *)
(* engine, as they are when constructed and before any call on them.       *)
(***************************************************************************)
\* Python's None where an object is expected (objects are numbered from 1)
Nil == 0

\* no traverse() call is in progress
InitTraverse ==
    /\ stack = <<>>
    /\ visited = {}
    /\ traversal_order = <<>>

\* SymbolTable.__init__: the global scope, which is the current scope
InitSymbolTable ==
    /\ scopes = << [name |-> "global", parent |-> Nil, children |-> <<>>,
                    symbols |-> PyDict({})] >>
    /\ symbols = <<>>
    /\ current_scope = 1
    /\ global_scope = 1

\* the names _initialize_builtin_types registers, in its order
BuiltinNames ==
    <<"void", "i8", "u8", "i16", "u16", "i32", "u32", "i64", "u64", "f32", "f64">>

\* TypeSystem.__init__: the built-in types registered under their names
InitTypeSystem ==
    /\ type_name = BuiltinNames
    /\ types = PyDict({<<BuiltinNames[k], k>> : k \in 1..Len(BuiltinNames)})

\* the modules, functions and global variables a program may insert
Entities == 1..NumEntities

\* each entity's name attribute: two entities share one name, and the last
\* entity has the empty name
name_of(e) ==
    IF e <= 2 THEN "x" ELSE IF e < NumEntities THEN "y" ELSE ""

\* one IR, one Module and one Function, all empty, and nothing inserted yet
InitContainers ==
    /\ modules = PyDict({})
    /\ functions = PyDict({})
    /\ global_variables = PyDict({})
    /\ symbol_table = PyDict({})
    /\ blocks = <<>>
    /\ parent = [module   |-> [e \in Entities |-> "None"],
                 function |-> [e \in Entities |-> "None"],
                 block    |-> [b \in Blocks |-> "None"],
                 instruction |-> [i \in Instrs |-> Nil]]
    /\ instructions = [b \in Blocks |-> <<>>]

\* an instruction of the base class has no accessor fields
PlainAttrs == [cls |-> "Instruction", accessors |-> <<>>]

\* no call has been made yet
NoCall == [op |-> "none"]

\* the objects that keep diagnostics: a Frontend and the Parser it created
Reporters == {"frontend", "parser"}

\* Frontend.__init__ and Parser.__init__: empty errors and warnings lists
InitFrontend ==
    /\ errors = [o \in Reporters |-> <<>>]
    /\ warnings = [o \in Reporters |-> <<>>]

\* everything outside the use-def graph as constructed, no call made
InitObjects ==
    /\ InitTraverse
    /\ InitSymbolTable
    /\ InitTypeSystem
    /\ InitContainers
    /\ InitFrontend
    /\ call = NoCall

\* every instruction is of the base class
InitPlainInstructions == attrs = [i \in Instrs |-> PlainAttrs]

(***************************************************************************)
(* Specifications of the IR graph.  Instructions and values start with     *)
(* empty operand lists and users sets, blocks with empty edge sets, and    *)
(* any mutator may be called with any arguments.                           *)
(***************************************************************************)
InitIR ==
    /\ operands = [i \in Instrs |-> <<>>]
    /\ users = [v \in Values |-> {}]
    /\ raised = "none"

InitEdges ==
    /\ predecessors = [b \in Blocks |-> {}]
    /\ successors = [b \in Blocks |-> {}]

\* no analysis object exists
InitNoAnalysis ==
    /\ analysis = "none"
    /\ function = [blocks |-> <<>>]
    /\ cfg = build_cfg(function)
    /\ in_sets = <<>>
    /\ out_sets = <<>>
    /\ killed_vars = <<>>
    /\ var_versions = <<>>
    /\ worklist = {}
    /\ calls = 0
    /\ steps = 0
    /\ pops = <<>>
    /\ first = <<>>

AddOperand ==
    /\ \E i \in Instrs, v \in Values : add_operand(i, v)
    /\ UNCHANGED <<cfgVars, dfVars, restVars>>

ReplaceOperand ==
    /\ \E i \in Instrs, old \in Values, new \in Values : replace_operand(i, old, new)
    /\ UNCHANGED <<cfgVars, dfVars, restVars>>

RemoveOperand ==
    /\ \E i \in Instrs, v \in Values : remove_operand(i, v)
    /\ UNCHANGED <<cfgVars, dfVars, restVars>>

NextUseDef == AddOperand \/ ReplaceOperand \/ RemoveOperand

\* no call has been made on the instructions and values
InitUseDef ==
    InitIR /\ InitEdges /\ InitNoAnalysis /\ InitObjects /\ InitPlainInstructions

SpecUseDef == InitUseDef /\ [][NextUseDef]_vars

AddPredecessor ==
    /\ \E b \in Blocks, pred \in Blocks : add_predecessor(b, pred)
    /\ UNCHANGED <<irVars, dfVars, restVars>>

AddSuccessor ==
    /\ \E b \in Blocks, succ \in Blocks : add_successor(b, succ)
    /\ UNCHANGED <<irVars, dfVars, restVars>>

RemovePredecessor ==
    /\ \E b \in Blocks, pred \in Blocks : remove_predecessor(b, pred)
    /\ UNCHANGED <<irVars, dfVars, restVars>>

RemoveSuccessor ==
    /\ \E b \in Blocks, succ \in Blocks : remove_successor(b, succ)
    /\ UNCHANGED <<irVars, dfVars, restVars>>

NextEdges == AddPredecessor \/ AddSuccessor \/ RemovePredecessor \/ RemoveSuccessor

SpecEdges == InitUseDef /\ [][NextEdges]_vars

(***************************************************************************)
(* Specifications of the dataflow engine.  The initial state is an         *)
(* analysis object as constructed: a function, the ControlFlowGraph built  *)
(* from it, and empty in_sets, out_sets, var_versions and killed_vars.     *)
(***************************************************************************)
InitAnalysis(classes, maxEdges) ==
    /\ InitIR
    /\ InitEdges
    /\ InitObjects
    /\ InitPlainInstructions
    /\ analysis \in classes
    /\ function \in {fn \in Functions(analysis) :
            \/ fn = Scenario(analysis)
            \/ Cardinality(Edges([b \in DOMAIN fn.blocks |-> fn.blocks[b].successors]))
                   <= maxEdges}
    /\ cfg = build_cfg(function)
    /\ in_sets = <<>>
    /\ out_sets = <<>>
    /\ killed_vars = <<>>
    /\ var_versions = <<>>
    /\ worklist = {}
    /\ calls = 0
    /\ steps = 0
    /\ pops = <<>>
    /\ first = <<>>

Nodes == get_nodes(cfg)

\* analyze() has returned
Returned == calls > 0 /\ worklist = {}

\* analyze() is called on the new object: initialize(), worklist = all nodes
Analyze ==
    /\ calls = 0
    /\ SetState(analyze_entry(analysis, cfg, State))
    /\ calls' = 1
    /\ UNCHANGED <<function, cfg, analysis, steps, pops, first>>
    /\ UNCHANGED <<irVars, cfgVars, restVars>>

\* one iteration of the while loop: worklist.pop() returns any node of it
Pop ==
    /\ calls > 0
    /\ \E node \in worklist : SetState(visit(analysis, function, cfg, State, node))
    /\ UNCHANGED <<function, cfg, analysis, calls, steps, pops, first>>
    /\ UNCHANGED <<irVars, cfgVars, restVars>>

AllClasses == {"ReachingDefinitions", "LiveVariable", "AvailableExpressions",
               "ConstantPropagation"}

NextAnalysis == Analyze \/ Pop

\* an iteration whose live-variable flow function reverses the block's
\* instruction list in place (list.reverse()) where the source iterates over
\* reversed(...)
PopCounted_reverses_in_place ==
    /\ calls > 0
    /\ \E node \in worklist :
          /\ SetState(visit(analysis, function, cfg, State, node))
          /\ function' = IF is_forward(analysis) THEN function
                         ELSE [function EXCEPT !.blocks[node].instructions =
                                  [k \in 1..Len(@) |-> @[Len(@) + 1 - k]]]
    /\ steps' = steps + 1
    /\ UNCHANGED <<cfg, analysis, calls, pops, first>>
    /\ UNCHANGED <<irVars, cfgVars, restVars>>

\* one iteration of the while loop, the pops of the call counted
PopCounted ==
    /\ calls > 0
    /\ \E node \in worklist : SetState(visit(analysis, function, cfg, State, node))
    /\ steps' = steps + 1
    /\ UNCHANGED <<function, cfg, analysis, calls, pops, first>>
    /\ UNCHANGED <<irVars, cfgVars, restVars>>

NextCounted == Analyze \/ PopCounted

\* the first analyze() call of an object whose pops are recorded
PopRecorded ==
    /\ calls = 1
    /\ \E node \in worklist :
          /\ SetState(visit(analysis, function, cfg, State, node))
          /\ pops' = Append(pops, node)
    /\ UNCHANGED <<function, cfg, analysis, calls, steps, first>>
    /\ UNCHANGED <<irVars, cfgVars, restVars>>

\* analyze() is called a second time on the same object, the function
\* unchanged
Reanalyze ==
    /\ calls = 1
    /\ worklist = {}
    /\ SetState(analyze_entry(analysis, cfg, State))
    /\ calls' = 2
    /\ first' = <<in_sets, out_sets>>
    /\ UNCHANGED <<function, cfg, analysis, steps, pops>>
    /\ UNCHANGED <<irVars, cfgVars, restVars>>

\* the second call pops the nodes in the order the first call popped them
PopReplayed ==
    /\ calls = 2
    /\ pops # <<>>
    /\ Head(pops) \in worklist
    /\ SetState(visit(analysis, function, cfg, State, Head(pops)))
    /\ pops' = Tail(pops)
    /\ UNCHANGED <<function, cfg, analysis, calls, steps, first>>
    /\ UNCHANGED <<irVars, cfgVars, restVars>>

NextRerun == Analyze \/ PopRecorded \/ Reanalyze \/ PopReplayed

SpecRD == InitAnalysis({"ReachingDefinitions"}, MaxEdges) /\ [][NextAnalysis]_vars
SpecLV == InitAnalysis({"LiveVariable"}, MaxEdges) /\ [][NextAnalysis]_vars
SpecAE == InitAnalysis({"AvailableExpressions"}, MaxEdges) /\ [][NextAnalysis]_vars
SpecCP == InitAnalysis({"ConstantPropagation"}, MaxEdges) /\ [][NextAnalysis]_vars

PlainClasses == {"ReachingDefinitions", "LiveVariable", "ConstantPropagation"}

\* the three analyses whose meet reads nothing but the given sets
SpecPlain == InitAnalysis(PlainClasses, MaxEdges) /\ [][NextAnalysis]_vars

\* all four classes, the pops counted
SpecCounted == InitAnalysis(AllClasses, CountedEdges) /\ [][NextCounted]_vars

\* all four classes, analyze() called twice on the object
SpecRerun == InitAnalysis(AllClasses, RerunEdges) /\ [][NextRerun]_vars

(***************************************************************************)
(* C1 -- use-def consistency (I1): after any sequence of add_operand,      *)
(* remove_operand and replace_operand calls (the same value added more     *)
(* than once to one instruction included), for every instruction i and     *)
(* value v, v occurs in i.operands if and only if i is in v.users.         *)
(***************************************************************************)
C1_UseDefConsistency ==
    \A i \in Instrs, v \in Values : (v \in Range(operands[i])) <=> (i \in users[v])

(***************************************************************************)
(* C2 -- CFG symmetry (I2): after any sequence of add_predecessor,         *)
(* add_successor, remove_predecessor and remove_successor calls, for all   *)
(* blocks a and b, b is in a.successors if and only if a is in             *)
(* b.predecessors.                                                         *)
(***************************************************************************)
C2_CFGSymmetry ==
    \A a \in Blocks, b \in Blocks : (b \in successors[a]) <=> (a \in predecessors[b])

\* a self-loop and an edge between two blocks are present, and a third
\* block has no edges
C2_Witness ==
    /\ \E a \in Blocks : a \in successors[a] /\ a \in predecessors[a]
    /\ \E a \in Blocks, b \in Blocks : a # b /\ b \in successors[a] /\ a \notin successors[b]
    /\ \E a \in Blocks : successors[a] = {} /\ predecessors[a] = {}

(***************************************************************************)
(* C3 -- termination: for each of the four analyses, on every function of  *)
(* the model (cycles, self-loops and unreachable blocks included) and      *)
(* whichever node the worklist pops, analyze() empties its worklist after  *)
(* finitely many pops: a call never pops more than PopLimit times, a       *)
(* number fixed by the function, so no run pops for ever.                  *)
(***************************************************************************)
\* the instructions and operands of a function, counted
RECURSIVE SumOver(_, _)
SumOver(f, S) ==
    IF S = {} THEN 0
    ELSE LET x == CHOOSE y \in S : TRUE IN f[x] + SumOver(f, S \ {x})

BlockSize(block) ==
    LET instrs == block.instructions
    IN  SumOver([k \in 1..Len(instrs) |-> 1 + Len(instrs[k].operands)], 1..Len(instrs))

FunctionSize(fn) ==
    SumOver([b \in DOMAIN fn.blocks |-> BlockSize(fn.blocks[b])], DOMAIN fn.blocks)

\* every node is popped once, and a node is enqueued again only when the
\* set of a neighbour changed: one pop per block, and per edge one for each
\* change a set can go through
PopLimit(fn, g) ==
    Cardinality(get_nodes(g))
        + Cardinality(Edges(g.successors)) * (1 + 2 * FunctionSize(fn))

C3_Termination == steps <= PopLimit(function, cfg)

\* whether node t is reachable from node s along one or more edges
RECURSIVE ReachSet(_, _)
ReachSet(g, S) ==
    LET next == S \cup UNION {g.successors[n] : n \in S}
    IN  IF next = S THEN S ELSE ReachSet(g, next)

Reaches(g, s, t) == t \in ReachSet(g, g.successors[s])

\* analyze() has returned on a function with a cycle through two blocks, a
\* self-loop and a block that no other block reaches, with a non-empty set
C3_Witness ==
    /\ Returned
    /\ steps > Cardinality(Nodes) + 2
    /\ \E n \in Nodes : n \in cfg.successors[n]
    /\ \E n \in Nodes, m \in Nodes : n # m /\ Reaches(cfg, n, m) /\ Reaches(cfg, m, n)
    /\ \E n \in Nodes : cfg.predecessors[n] \subseteq {n}
    /\ \E n \in Nodes : out_sets[n].items # {}

(***************************************************************************)
(* C4 -- pop-order independence of the three plain analyses: for reaching  *)
(* definitions, live variables and constant propagation, the in_sets and   *)
(* out_sets held when analyze() returns are those of the run that always   *)
(* pops the least node, whatever order the worklist popped the nodes in;   *)
(* so they are the same for every order.                                   *)
(***************************************************************************)
\* the analysis object as constructed
Constructed ==
    [in_sets |-> <<>>, out_sets |-> <<>>, killed_vars |-> <<>>,
     var_versions |-> <<>>, worklist |-> {}]

\* the state analyze() returns in when every pop takes the least node
LeastOrderRun ==
    run_least(analysis, function, cfg, analyze_entry(analysis, cfg, Constructed))

SameAsLeastOrderRun ==
    /\ in_sets = LeastOrderRun.in_sets
    /\ out_sets = LeastOrderRun.out_sets

C4_PlainPopOrderIndependent ==
    (Returned /\ analysis \in PlainClasses) => SameAsLeastOrderRun

\* a plain analysis has returned on a function with a join and a cycle, and
\* the sets are not all empty
C4_Witness ==
    /\ Returned
    /\ analysis \in PlainClasses
    /\ \E n \in Nodes : Cardinality(cfg.predecessors[n]) >= 2
    /\ \E n \in Nodes : Reaches(cfg, n, n)
    /\ \E n \in Nodes : in_sets[n].items # {} /\ out_sets[n].items # in_sets[n].items

(***************************************************************************)
(* C5 -- pop-order independence of available expressions: the in_sets and  *)
(* out_sets held when AvailableExpressionsAnalysis.analyze() returns are   *)
(* the same for every order in which the worklist pops nodes (those of the *)
(* run that always pops the least node).  The meet reads killed_vars as    *)
(* filled so far, and the code does not keep this.                         *)
(***************************************************************************)
C5_AvailablePopOrderIndependent ==
    (Returned /\ analysis = "AvailableExpressions") => SameAsLeastOrderRun

(***************************************************************************)
(* C6 -- a re-run resets the state: a second analyze() call on the same    *)
(* object, the function unchanged and the nodes popped in the order of the *)
(* first call, can pop in that order to the end and returns with exactly   *)
(* the in_sets and out_sets of the first call.                             *)
(***************************************************************************)
C6_RerunSameResult ==
    calls = 2 =>
        /\ worklist # {} => (pops # <<>> /\ Head(pops) \in worklist)
        /\ worklist = {} => (pops = <<>> /\ <<in_sets, out_sets>> = first)

\* the second call of an available-expressions analysis has returned, the
\* first call having recorded killed variables and found an expression
\* available at a join
C6_Witness ==
    /\ calls = 2
    /\ worklist = {}
    /\ analysis = "AvailableExpressions"
    /\ \E n \in Nodes : killed_vars[n] # {}
    /\ \E n \in Nodes : Cardinality(cfg.predecessors[n]) >= 2 /\ first[1][n].items # {}

(***************************************************************************)
(* C7 -- reaching definitions equals the path-based reference: when        *)
(* analyze() returns on a function in which each block defines each name   *)
(* at most once, (v, i) is in in_sets[n] if and only if a path of at least *)
(* one edge leads from the block holding i to n with no block strictly     *)
(* between them holding an instruction named v; out_sets[n] is in_sets[n]  *)
(* without the pairs whose name is defined in n, plus (i.name, i) for      *)
(* every named instruction i of n.  On the diamond of scenario S1:         *)
(* in(exit) = out(exit) = {(a,a1),(a,a2),(b,b1)} and out(b2) = {(a,a2)}.   *)
(***************************************************************************)
\* the names the instructions of block b carry
BlockNames(fn, b) ==
    {fn.blocks[b].instructions[k].name : k \in 1..Len(fn.blocks[b].instructions)} \ {""}

\* the pairs (i.name, i) of the named instructions of block b
BlockDefinitions(fn, b) ==
    {<<fn.blocks[b].instructions[k].name, <<b, k>>>> :
        k \in {j \in 1..Len(fn.blocks[b].instructions) :
                  fn.blocks[b].instructions[j].name # ""}}

EachNameOncePerBlock(fn) ==
    \A b \in DOMAIN fn.blocks :
        \A j, k \in 1..Len(fn.blocks[b].instructions) :
            (j # k /\ fn.blocks[b].instructions[j].name # "")
                => fn.blocks[b].instructions[j].name # fn.blocks[b].instructions[k].name

\* the nodes that a path from one of the nodes S reaches, no node of the
\* path other than its last holding an instruction named v
RECURSIVE ClearReach(_, _, _, _)
ClearReach(fn, g, v, S) ==
    LET next == S \cup UNION {g.successors[m] : m \in {x \in S : v \notin BlockNames(fn, x)}}
    IN  IF next = S THEN S ELSE ClearReach(fn, g, v, next)

\* the definitions that reach the entry of node n along some path
ReachingAt(fn, g, n) ==
    UNION {{d \in BlockDefinitions(fn, b) : n \in ClearReach(fn, g, d[1], g.successors[b])} :
              b \in get_nodes(g)}

C7_ReachingDefinitionsReference ==
    (Returned /\ analysis = "ReachingDefinitions" /\ EachNameOncePerBlock(function)) =>
        /\ \A n \in Nodes :
              /\ in_sets[n] = PySet(ReachingAt(function, cfg, n))
              /\ out_sets[n] =
                     PySet({d \in in_sets[n].items : d[1] \notin BlockNames(function, n)}
                               \cup BlockDefinitions(function, n))
        /\ function = RD_Scenario =>
              /\ in_sets[4].items = {<<"a", <<1, 1>>>>, <<"a", <<3, 1>>>>, <<"b", <<2, 1>>>>}
              /\ out_sets[4].items = {<<"a", <<1, 1>>>>, <<"a", <<3, 1>>>>, <<"b", <<2, 1>>>>}
              /\ out_sets[3].items = {<<"a", <<3, 1>>>>}

\* reaching definitions has returned on a function with a cycle in which a
\* definition reaches a join but is killed on the way to another node
C7_Witness ==
    /\ Returned
    /\ analysis = "ReachingDefinitions"
    /\ EachNameOncePerBlock(function)
    /\ function # RD_Scenario
    /\ \E n \in Nodes : Reaches(cfg, n, n)
    /\ \E n \in Nodes, m \in Nodes : \E d \in BlockDefinitions(function, n) :
          /\ Cardinality(cfg.predecessors[m]) >= 2
          /\ d \in in_sets[m].items
          /\ \E k \in Nodes : Reaches(cfg, n, k) /\ d \notin in_sets[k].items

(***************************************************************************)
(* C8 -- live variables equals the path-based reference: when analyze()    *)
(* returns, a name v is in in_sets[n] if and only if some path starting at *)
(* the first instruction of n reaches an instruction that has an operand   *)
(* named v before reaching any instruction named v (an instruction reads   *)
(* its operands before it defines its name); out_sets[n] is the union of   *)
(* in_sets over the successors of n.  On the diamond of scenario S2:       *)
(* in(exit) = {}, in(b1) = {}, in(b2) = {a}, in(entry) = {}.               *)
(***************************************************************************)
\* block b reads v at an instruction that no instruction named v precedes
ReadsBeforeDefining(fn, b, v) ==
    LET instrs == fn.blocks[b].instructions
    IN  \E k \in 1..Len(instrs) :
            /\ \E j \in 1..Len(instrs[k].operands) : instrs[k].operands[j].name = v
            /\ \A j \in 1..(k - 1) : instrs[j].name # v

\* the names that occur in the function
AllNames(fn) ==
    UNION {BlockNames(fn, b) \cup
           UNION {get_used_variables(fn.blocks[b].instructions[k]) :
                     k \in 1..Len(fn.blocks[b].instructions)} : b \in DOMAIN fn.blocks}

LiveAt(fn, g, n) ==
    {v \in AllNames(fn) : \E m \in ClearReach(fn, g, v, {n}) : ReadsBeforeDefining(fn, m, v)}

C8_LiveVariablesReference ==
    (Returned /\ analysis = "LiveVariable") =>
        /\ \A n \in Nodes :
              /\ in_sets[n] = PySet(LiveAt(function, cfg, n))
              /\ out_sets[n] = PySet(UNION {in_sets[s].items : s \in cfg.successors[n]})
        /\ function = LV_Scenario =>
              /\ in_sets[4].items = {}
              /\ in_sets[2].items = {}
              /\ in_sets[3].items = {"a"}
              /\ in_sets[1].items = {}

\* live variables has returned on a function with a cycle where a name is
\* live into a node that does not read it, and dead where it is defined
C8_Witness ==
    /\ Returned
    /\ analysis = "LiveVariable"
    /\ function # LV_Scenario
    /\ \E n \in Nodes : Reaches(cfg, n, n)
    /\ \E n \in Nodes : "a" \in in_sets[n].items /\ ~ReadsBeforeDefining(function, n, "a")
    /\ \E n \in Nodes : "a" \in out_sets[n].items /\ "a" \notin in_sets[n].items

(***************************************************************************)
(* C9 -- available-expressions transfer: when analyze() returns, for every *)
(* node n, out_sets[n] is the expressions of in_sets[n] none of whose      *)
(* operand names is the name of an instruction of n, united with every     *)
(* expression derivable from an instruction of n; an expression computed   *)
(* in n is in out_sets[n] also when one of its operand names is defined in *)
(* n.  On the diamond of scenario S3, under every pop order: out(b1) =     *)
(* {add(x,y), multiply(x,y)}, out(b2) = {add(x,y)}, and out(entry) =       *)
(* in(exit) = out(exit) = {}.                                              *)
(***************************************************************************)
Expr(operator, names) == [operator |-> operator, operands |-> names]

\* the expressions derivable from the instructions of block b
Derivable(fn, b) ==
    {from_instruction(fn.blocks[b].instructions[k]) :
        k \in 1..Len(fn.blocks[b].instructions)} \ {None}

C9_AvailableTransfer ==
    (Returned /\ analysis = "AvailableExpressions") =>
        /\ \A n \in Nodes :
              /\ out_sets[n] =
                     PySet({e \in in_sets[n].items : ~uses_any(e, BlockNames(function, n))}
                               \cup Derivable(function, n))
              /\ Derivable(function, n) \subseteq out_sets[n].items
        /\ function = AE_Scenario =>
              /\ out_sets[2].items = {Expr("add", <<"x", "y">>), Expr("multiply", <<"x", "y">>)}
              /\ out_sets[3].items = {Expr("add", <<"x", "y">>)}
              /\ out_sets[1].items = {}
              /\ in_sets[4].items = {}
              /\ out_sets[4].items = {}

\* available expressions has returned; a node computes an expression over a
\* name it defines itself and keeps it, and another node had the expression
\* on entry and killed it
C9_Witness ==
    /\ Returned
    /\ analysis = "AvailableExpressions"
    /\ function # AE_Scenario
    /\ \E n \in Nodes : \E e \in Derivable(function, n) :
          uses_any(e, BlockNames(function, n)) /\ e \in out_sets[n].items
    /\ \E n \in Nodes : \E e \in in_sets[n].items : e \notin out_sets[n].items

(***************************************************************************)
(* C10 -- global kill at merge points: when                                *)
(* AvailableExpressionsAnalysis.analyze() returns, for every node n with   *)
(* two or more predecessors, in_sets[n] holds no expression one of whose   *)
(* operand names is the name of an instruction in any block of the         *)
(* function, whichever order the worklist popped the nodes in.             *)
(***************************************************************************)
AllBlockNames(fn) == UNION {BlockNames(fn, b) : b \in DOMAIN fn.blocks}

C10_GlobalKillAtMerge ==
    (Returned /\ analysis = "AvailableExpressions") =>
        \A n \in Nodes :
            Cardinality(cfg.predecessors[n]) >= 2 =>
                \A e \in in_sets[n].items : ~uses_any(e, AllBlockNames(function))

(***************************************************************************)
(* C11 -- constant-propagation meet at joins: when                         *)
(* ConstantPropagationAnalysis.analyze() returns, for every node n with at *)
(* least one predecessor, the keys of in_sets[n] are the union of the keys *)
(* of its predecessors' out_sets, and in_sets[n][v] is CONST if and only   *)
(* if out_sets[p][v] is CONST for every predecessor p, and TOP otherwise   *)
(* (a predecessor without the key counts as TOP).  On the diamond of       *)
(* scenario S4: in(exit) = {a:CONST, b:CONST, c:TOP, d:TOP, e:TOP}.        *)
(***************************************************************************)
C11_ConstantMeetAtJoins ==
    (Returned /\ analysis = "ConstantPropagation") =>
        /\ \A n \in Nodes :
              cfg.predecessors[n] # {} =>
                  /\ in_sets[n].t = "dict"
                  /\ Keys(in_sets[n]) = UNION {Keys(out_sets[p]) : p \in cfg.predecessors[n]}
                  /\ \A v \in Keys(in_sets[n]) :
                        Get(in_sets[n], v, "absent") =
                            IF \A p \in cfg.predecessors[n] :
                                   Get(out_sets[p], v, "TOP") = "CONST"
                            THEN "CONST" ELSE "TOP"
        /\ function = CP_Scenario =>
              in_sets[4] = PyDict({<<"a", "CONST">>, <<"b", "CONST">>, <<"c", "TOP">>,
                                   <<"d", "TOP">>, <<"e", "TOP">>})

\* constant propagation has returned; at a join a name that is CONST on one
\* side and missing on the other is TOP, and at a join a name that is CONST
\* on both sides is CONST
C11_Witness ==
    /\ Returned
    /\ analysis = "ConstantPropagation"
    /\ function # CP_Scenario
    /\ \E n \in Nodes : \E p \in cfg.predecessors[n], q \in cfg.predecessors[n] :
          /\ p # q
          /\ Get(out_sets[p], "a", "absent") = "CONST"
          /\ Get(out_sets[q], "a", "absent") = "absent"
          /\ Get(in_sets[n], "a", "absent") = "TOP"
    /\ \E n \in Nodes :
          /\ Cardinality(cfg.predecessors[n]) >= 2
          /\ Get(in_sets[n], "a", "absent") = "CONST"

(***************************************************************************)
(* Specification of CFG construction.  A program makes block edges with    *)
(* the four edge mutators and adds blocks to the function with add_block   *)
(* (the same block may be added again), then constructs                    *)
(* ControlFlowGraph(function); the test's diamond is constructed as the    *)
(* test does.                                                              *)
(***************************************************************************)
\* Function.add_block(block): block.parent = self; self.blocks.append(block)
add_block(b) ==
    /\ parent' = [parent EXCEPT !.block[b] = "function"]
    /\ blocks' = Append(blocks, b)

\* the function object as the CFG constructor reads it: its distinct blocks
\* with the edge sets they hold
the_function ==
    [blocks |-> [b \in Range(blocks) |-> Block(<<>>, successors[b], predecessors[b])]]

\* the four blocks of test_control_flow_graph and their edges
DiamondFunction == MakeFunction([b \in DOMAIN DiamondEdges |-> <<>>], DiamondEdges)

MakeEdges ==
    /\ call = NoCall
    /\ NextEdges

AddBlock ==
    /\ call = NoCall
    /\ Len(blocks) < MaxBlockList
    /\ \E b \in Blocks : add_block(b)
    /\ UNCHANGED <<irVars, cfgVars, dfVars, trVars, symVars, tyVars, attrs, instructions,
                   feVars, call, modules, functions, global_variables, symbol_table>>

\* ControlFlowGraph(function): __attrs_post_init__ calls build_cfg, whose
\* self.nodes[successor] raises KeyError for a successor outside the function
BuildCFG ==
    /\ call = NoCall
    /\ IF \E b \in Range(blocks) : ~(successors[b] \subseteq Range(blocks))
       THEN /\ raised' = "KeyError"
            /\ UNCHANGED <<function, cfg>>
       ELSE /\ raised' = "none"
            /\ function' = the_function
            /\ cfg' = build_cfg(function')
    /\ call' = [op |-> "ControlFlowGraph", scenario |-> FALSE]
    /\ UNCHANGED <<operands, users, cfgVars, analysis, in_sets, out_sets, killed_vars,
                   var_versions, worklist, calls, steps, pops, first,
                   trVars, symVars, tyVars, ctVars, attrs, feVars>>

BuildScenario ==
    /\ call = NoCall
    /\ raised' = "none"
    /\ function' = DiamondFunction
    /\ cfg' = build_cfg(function')
    /\ call' = [op |-> "ControlFlowGraph", scenario |-> TRUE]
    /\ UNCHANGED <<operands, users, cfgVars, analysis, in_sets, out_sets, killed_vars,
                   var_versions, worklist, calls, steps, pops, first,
                   trVars, symVars, tyVars, ctVars, attrs, feVars>>

NextCFG == MakeEdges \/ AddBlock \/ BuildCFG \/ BuildScenario

SpecCFG == InitUseDef /\ [][NextCFG]_vars

(***************************************************************************)
(* C12 -- CFG construction mirrors the block graph: once                   *)
(* ControlFlowGraph(function) is constructed for a function whose edges    *)
(* were made by the mutators, the graph has one node per distinct block of *)
(* function.blocks, and when every edge of those blocks stays inside the   *)
(* function, node(b) is a successor of node(a) exactly when b is in        *)
(* a.successors and node(a) is a predecessor of node(b) exactly when a is  *)
(* in b.predecessors.  The test's 4-block diamond gives 4 nodes, an entry  *)
(* node with 2 successors and an exit node with 2 predecessors.            *)
(***************************************************************************)
EdgesStayInside(S) ==
    \A b \in S : successors[b] \subseteq S /\ predecessors[b] \subseteq S

C12_CFGMirrorsBlocks ==
    /\ (call.op = "ControlFlowGraph" /\ ~call.scenario /\ raised = "none") =>
          /\ get_nodes(cfg) = Range(blocks)
          /\ DOMAIN cfg.predecessors = Range(blocks)
          /\ EdgesStayInside(Range(blocks)) =>
                \A a \in Range(blocks), b \in Range(blocks) :
                    /\ (b \in cfg.successors[a]) <=> (b \in successors[a])
                    /\ (a \in cfg.predecessors[b]) <=> (a \in predecessors[b])
    /\ (call.op = "ControlFlowGraph" /\ call.scenario) =>
          /\ Cardinality(get_nodes(cfg)) = 4
          /\ cfg.successors[1] = {2, 3}
          /\ cfg.predecessors[4] = {2, 3}
          /\ \A a \in get_nodes(cfg), b \in get_nodes(cfg) :
                /\ (b \in cfg.successors[a]) <=> (b \in function.blocks[a].successors)
                /\ (a \in cfg.predecessors[b]) <=> (a \in function.blocks[b].predecessors)

\* a graph was constructed for a function that lists a block twice, has
\* every block, an edge between two blocks and a self-loop
C12_Witness ==
    /\ call.op = "ControlFlowGraph"
    /\ ~call.scenario
    /\ raised = "none"
    /\ Range(blocks) = Blocks
    /\ Len(blocks) > Cardinality(Range(blocks))
    /\ \E a \in Blocks, b \in Blocks : a # b /\ b \in cfg.successors[a]
    /\ \E a \in Blocks : a \in cfg.predecessors[a]

(***************************************************************************)
(* ControlFlowGraph.traverse, one action per iteration of its while loop.  *)
(* stack.extend(node.successors - visited) appends the members of a set,   *)
(* so in any order.                                                        *)
(***************************************************************************)
\* the lists that hold each member of S exactly once
Orderings(S) ==
    {q \in [1..Cardinality(S) -> S] : \A i, j \in 1..Cardinality(S) : q[i] = q[j] => i = j}

\* the loop body that pops the first node of the list instead of the last
traverse_step_pops_first(g, stk, vis, order) ==
    LET node == stk[1]
        rest == SubSeq(stk, 2, Len(stk))
    IN  IF node \in vis
        THEN {[stack |-> rest, visited |-> vis, traversal_order |-> order]}
        ELSE {[stack |-> rest \o q, visited |-> vis \cup {node},
               traversal_order |-> Append(order, node)] :
                    q \in Orderings(g.successors[node] \ (vis \cup {node}))}

\* one iteration of the while loop: the locals it may leave
traverse_step(g, stk, vis, order) ==
    LET node == stk[Len(stk)]
        rest == SubSeq(stk, 1, Len(stk) - 1)
    IN  IF node \in vis
        THEN {[stack |-> rest, visited |-> vis, traversal_order |-> order]}
        ELSE {[stack |-> rest \o q, visited |-> vis \cup {node},
               traversal_order |-> Append(order, node)] :
                    q \in Orderings(g.successors[node] \ (vis \cup {node}))}

\* the graphs traversed: every graph of TraverseBlocks blocks with at most
\* TraverseEdges edges, block 1 being function.blocks[0]
TraverseGraphs ==
    {succs \in [1..TraverseBlocks -> SUBSET (1..TraverseBlocks)] :
        Cardinality(Edges(succs)) <= TraverseEdges}

InitTraversal ==
    /\ InitIR
    /\ InitEdges
    /\ InitObjects
    /\ InitPlainInstructions
    /\ analysis = "none"
    /\ function \in {MakeFunction([b \in DOMAIN succs |-> <<>>], succs) :
                        succs \in TraverseGraphs}
    /\ cfg = build_cfg(function)
    /\ in_sets = <<>>
    /\ out_sets = <<>>
    /\ killed_vars = <<>>
    /\ var_versions = <<>>
    /\ worklist = {}
    /\ calls = 0
    /\ steps = 0
    /\ pops = <<>>
    /\ first = <<>>

\* traverse(start_block) up to the first test of the while loop; start is
\* Nil when the argument is omitted
Traverse ==
    /\ call.op = "traverse" => call.returned
    /\ \E start \in get_nodes(cfg) \cup {Nil} :
          LET start_block == IF start = Nil THEN 1 ELSE start
          IN  /\ visited' = {}
              /\ traversal_order' = <<>>
              /\ stack' = <<start_block>>
              /\ call' = [op |-> "traverse", start_block |-> start, returned |-> FALSE]
    /\ steps' = 0
    /\ UNCHANGED <<irVars, cfgVars, function, cfg, analysis, in_sets, out_sets,
                   killed_vars, var_versions, worklist, calls, pops, first,
                   symVars, tyVars, ctVars, attrs, feVars>>

\* one iteration of the loop; the call returns traversal_order when the
\* stack is left empty
TraverseStep ==
    /\ call.op = "traverse"
    /\ ~call.returned
    /\ stack # <<>>
    /\ \E r \in traverse_step(cfg, stack, visited, traversal_order) :
          /\ stack' = r.stack
          /\ visited' = r.visited
          /\ traversal_order' = r.traversal_order
          /\ call' = [call EXCEPT !.returned = (r.stack = <<>>)]
    /\ steps' = steps + 1
    /\ UNCHANGED <<irVars, cfgVars, function, cfg, analysis, in_sets, out_sets,
                   killed_vars, var_versions, worklist, calls, pops, first,
                   symVars, tyVars, ctVars, attrs, feVars>>

NextTraversal == Traverse \/ TraverseStep

SpecTraversal == InitTraversal /\ [][NextTraversal]_vars

(***************************************************************************)
(* C13 -- traverse(start) returns a valid depth-first preorder of the      *)
(* nodes reachable from start: the start node (the node of                 *)
(* function.blocks[0] when start is omitted) is first, every node          *)
(* reachable from it along successor edges appears exactly once, no other  *)
(* node appears, the list is one a recursive depth-first search can        *)
(* produce, and the loop ends after at most one iteration per edge plus    *)
(* one, also on graphs with cycles.                                        *)
(***************************************************************************)
\* the preorders a recursive depth-first search can extend order to while
\* it explores node n, the last node it entered
RECURSIVE Explore(_, _, _)
Explore(g, n, order) ==
    LET unvisited == g.successors[n] \ Range(order)
    IN  IF unvisited = {} THEN {order}
        ELSE UNION {Explore(g, n, deeper) :
                deeper \in UNION {Explore(g, m, Append(order, m)) : m \in unvisited}}

DepthFirstPreorders(g, s) == Explore(g, s, <<s>>)

StartNode == IF call.start_block = Nil THEN 1 ELSE call.start_block

C13_TraverseIsDepthFirstPreorder ==
    call.op = "traverse" =>
        /\ steps <= 1 + Cardinality(Edges(cfg.successors))
        /\ ~call.returned => stack # <<>>
        /\ call.returned =>
              /\ traversal_order[1] = StartNode
              /\ Range(traversal_order) = ReachSet(cfg, {StartNode})
              /\ Len(traversal_order) = Cardinality(Range(traversal_order))
              /\ traversal_order \in DepthFirstPreorders(cfg, StartNode)

\* a traversal from a given start returned on a graph with a cycle, a node
\* the start does not reach and a node with two successors, one of which
\* has a successor of its own
C13_Witness ==
    /\ call.op = "traverse"
    /\ call.returned
    /\ call.start_block # Nil
    /\ Len(traversal_order) = 3
    /\ Reaches(cfg, StartNode, StartNode)
    /\ \E n \in get_nodes(cfg) : Cardinality(cfg.successors[n]) = 2
    /\ \E n \in get_nodes(cfg) : n \notin Range(traversal_order)

(***************************************************************************)
(* The symbol table (core/symbol.py).  Scope and Symbol objects are        *)
(* numbered in creation order; scope 1 is the global scope.                *)
(***************************************************************************)
SymbolNames == {"x", "y"}

\* Scope.lookup_symbol that never searches the parent scope
scope_lookup_symbol_current_only(scps, sc, name, recursive) ==
    Get(scps[sc].symbols, name, Nil)

\* Scope.lookup_symbol(name, recursive)
RECURSIVE scope_lookup_symbol(_, _, _, _)
scope_lookup_symbol(scps, sc, name, recursive) ==
    LET symbol == Get(scps[sc].symbols, name, Nil)
    IN  IF symbol # Nil \/ ~recursive \/ scps[sc].parent = Nil
        THEN symbol
        ELSE scope_lookup_symbol(scps, scps[sc].parent, name, TRUE)

\* SymbolTable.lookup_symbol(name, current_scope_only)
lookup_symbol(name, current_scope_only) ==
    scope_lookup_symbol(scopes, current_scope, name, ~current_scope_only)

\* Scope.add_symbol(symbol): self.symbols[symbol.name] = symbol; symbol.scope = self
scope_add_symbol(sc, sym, syms) ==
    /\ scopes' = [scopes EXCEPT ![sc].symbols = Put(@, syms[sym].name, sym)]
    /\ symbols' = [syms EXCEPT ![sym].scope = sc]

\* the scopes that were current at the enter_scope calls of the run of
\* enter_scope and exit_scope calls in progress which no exit_scope of the
\* run has matched yet, outermost first
entered_from == IF call.op \in {"enter_scope", "exit_scope"} THEN call.entered_from ELSE <<>>

\* the names given to enter_scope
ScopeNames == {"f", "g"}

\* an enter_scope(name) that enters the child of that name when the current
\* scope has one
enter_scope_reuses_child(name) ==
    LET same == {k \in 1..Len(scopes[current_scope].children) :
                    scopes[scopes[current_scope].children[k]].name = name}
        child == Len(scopes) + 1
    IN  IF same # {}
        THEN /\ current_scope' = scopes[current_scope].children[CHOOSE k \in same : TRUE]
             /\ UNCHANGED scopes
        ELSE /\ scopes' = Append([scopes EXCEPT ![current_scope].children = Append(@, child)],
                                 [name |-> name, parent |-> current_scope,
                                  children |-> <<>>, symbols |-> PyDict({})])
             /\ current_scope' = child

\* SymbolTable.enter_scope(name): Scope.add_child_scope(name) on the current
\* scope creates Scope(name=name, parent=self) and appends it to the children;
\* the child becomes the current scope
enter_scope(name) ==
    LET child == Len(scopes) + 1
    IN  /\ scopes' = Append([scopes EXCEPT ![current_scope].children = Append(@, child)],
                            [name |-> name, parent |-> current_scope,
                             children |-> <<>>, symbols |-> PyDict({})])
        /\ current_scope' = child

\* one enter_scope call with a name drawn from names
EnterScopeIn(names) ==
    /\ Len(scopes) < MaxScopes
    /\ \E name \in names :
          /\ enter_scope(name)
          /\ call' = [op |-> "enter_scope", name |-> name,
                      entered_from |-> Append(entered_from, current_scope)]
    /\ UNCHANGED <<irVars, cfgVars, dfVars, trVars, symbols, global_scope, tyVars, ctVars,
                   attrs, feVars>>

\* enter_scope("f")
EnterScope == EnterScopeIn({"f"})

\* enter_scope with either name
EnterNamedScope == EnterScopeIn(ScopeNames)

\* exit_scope(): a no-op in the global scope
ExitScope ==
    /\ current_scope' = IF scopes[current_scope].parent # Nil
                        THEN scopes[current_scope].parent ELSE current_scope
    /\ call' = [op |-> "exit_scope", exited |-> current_scope,
                entered_from |-> IF entered_from = <<>> THEN <<>>
                                 ELSE SubSeq(entered_from, 1, Len(entered_from) - 1),
                matched |-> IF entered_from = <<>> THEN Nil
                            ELSE entered_from[Len(entered_from)]]
    /\ UNCHANGED <<irVars, cfgVars, dfVars, trVars, scopes, symbols, global_scope, tyVars,
                   ctVars, attrs, feVars>>

\* SymbolTable.add_symbol(name, type): Symbol(..., scope=current_scope), whose
\* __attrs_post_init__ registers it with the scope
AddSymbol ==
    /\ Len(symbols) < MaxSymbols
    /\ \E name \in SymbolNames :
          LET symbol == Len(symbols) + 1
          IN  /\ scope_add_symbol(current_scope, symbol,
                                  Append(symbols, [name |-> name, scope |-> current_scope]))
              /\ call' = [op |-> "add_symbol", entity |-> symbol, name |-> name,
                          before |-> scopes[current_scope].symbols]
    /\ UNCHANGED <<irVars, cfgVars, dfVars, trVars, current_scope, global_scope, tyVars,
                   ctVars, attrs, feVars>>

LookupSymbol ==
    /\ \E name \in SymbolNames, current_scope_only \in BOOLEAN :
          call' = [op |-> "lookup_symbol", name |-> name,
                   current_scope_only |-> current_scope_only,
                   result |-> lookup_symbol(name, current_scope_only)]
    /\ UNCHANGED <<irVars, cfgVars, dfVars, trVars, symVars, tyVars, ctVars, attrs, feVars>>

NextSymbols == EnterScope \/ ExitScope \/ AddSymbol \/ LookupSymbol

SpecSymbols == InitUseDef /\ [][NextSymbols]_vars

(***************************************************************************)
(* C14 -- symbol shadowing: after any sequence of enter_scope, exit_scope  *)
(* and add_symbol calls, lookup_symbol(n) returns the symbol most recently *)
(* added under n in the nearest scope, on the chain from the current scope *)
(* up to the root, that had a symbol of that name added, and None when no  *)
(* scope on the chain had one.  So after exit_scope the outer binding that *)
(* the exited scope shadowed is returned again, and names only bound in    *)
(* the exited scope are no longer found.                                   *)
(***************************************************************************)
\* the symbols added to scope sc under name n, by their creation numbers
AddedTo(sc, n) == {k \in 1..Len(symbols) : symbols[k].name = n /\ symbols[k].scope = sc}

\* the latest symbol added under n in the nearest scope from sc upwards
RECURSIVE NearestLatest(_, _)
NearestLatest(sc, n) ==
    IF AddedTo(sc, n) # {}
    THEN CHOOSE k \in AddedTo(sc, n) : \A j \in AddedTo(sc, n) : j <= k
    ELSE IF scopes[sc].parent = Nil THEN Nil
    ELSE NearestLatest(scopes[sc].parent, n)

C14_SymbolShadowing ==
    /\ \A n \in SymbolNames : lookup_symbol(n, FALSE) = NearestLatest(current_scope, n)
    /\ (call.op = "lookup_symbol" /\ ~call.current_scope_only) =>
            call.result = NearestLatest(current_scope, call.name)
    /\ call.op = "exit_scope" =>
            \A n \in SymbolNames :
                lookup_symbol(n, FALSE) =
                    IF scopes[call.exited].parent = Nil
                    THEN NearestLatest(call.exited, n)
                    ELSE NearestLatest(scopes[call.exited].parent, n)

\* a lookup made after leaving a scope returned the outer symbol of a name
\* that the left scope rebound twice, while the other name, bound only in
\* the left scope, is not found
C14_Witness ==
    /\ call.op = "lookup_symbol"
    /\ ~call.current_scope_only
    /\ call.result # Nil
    /\ symbols[call.result].scope = current_scope
    /\ \E inner \in 1..Len(scopes) :
          /\ scopes[inner].parent = current_scope
          /\ Cardinality(AddedTo(inner, call.name)) = 2
          /\ \A k \in AddedTo(inner, call.name) : k > call.result
          /\ \E n \in SymbolNames :
                /\ AddedTo(inner, n) # {}
                /\ lookup_symbol(n, FALSE) = Nil

(***************************************************************************)
(* The type system (core/types.py).  Type objects are numbered in creation *)
(* order, the built-in types first; type_name holds each object's name,    *)
(* built by the class's __attrs_post_init__ from the names of its parts.   *)
(***************************************************************************)
\* PointerType.name
pointer_name(pointee_type) == type_name[pointee_type] \o "*"

\* ArrayType.name; length is the text of the length, "" for None
array_name(element_type, length) == type_name[element_type] \o "[" \o length \o "]"

\* ", ".join(t.name for t in parameter_types)
RECURSIVE join_names(_)
join_names(parameter_types) ==
    IF Len(parameter_types) = 0 THEN ""
    ELSE IF Len(parameter_types) = 1 THEN type_name[parameter_types[1]]
    ELSE type_name[parameter_types[1]] \o ", " \o join_names(Tail(parameter_types))

\* FunctionType.name
function_name(return_type, parameter_types) ==
    type_name[return_type] \o " (" \o join_names(parameter_types) \o ")"

\* TypeSystem.get_type(name)
get_type(name) == Get(types, name, Nil)

\* TypeSystem.register_type(type_): self.types[type_.name] = type_
register_type(tys, name, type_) == Put(tys, name, type_)

\* a factory call: a new Type object of the given name is constructed,
\* registered and returned
create_type(op, name) ==
    LET type_ == Len(type_name) + 1
    IN  /\ type_name' = Append(type_name, name)
        /\ types' = register_type(types, name, type_)
        /\ call' = [op |-> op, result |-> type_]

\* the types a program passes to the factories: i32 and the types created
TypeArguments ==
    {get_type("i32")} \cup ((Len(BuiltinNames) + 1)..Len(type_name))

CreatePointerType ==
    /\ Len(type_name) < Len(BuiltinNames) + MaxCreated
    /\ \E pointee_type \in TypeArguments :
          create_type("create_pointer_type", pointer_name(pointee_type))
    /\ UNCHANGED <<irVars, cfgVars, dfVars, trVars, symVars, ctVars, attrs, feVars>>

CreateArrayType ==
    /\ Len(type_name) < Len(BuiltinNames) + MaxCreated
    /\ \E element_type \in TypeArguments, length \in {"", "10"} :
          create_type("create_array_type", array_name(element_type, length))
    /\ UNCHANGED <<irVars, cfgVars, dfVars, trVars, symVars, ctVars, attrs, feVars>>

CreateStructType ==
    /\ Len(type_name) < Len(BuiltinNames) + MaxCreated
    /\ \E name \in {"Point", "i32*"} : create_type("create_struct_type", name)
    /\ UNCHANGED <<irVars, cfgVars, dfVars, trVars, symVars, ctVars, attrs, feVars>>

CreateFunctionType ==
    /\ Len(type_name) < Len(BuiltinNames) + MaxCreated
    /\ \E return_type \in TypeArguments :
       \E parameter_types \in {<<>>} \cup {<<t>> : t \in TypeArguments} :
          create_type("create_function_type", function_name(return_type, parameter_types))
    /\ UNCHANGED <<irVars, cfgVars, dfVars, trVars, symVars, ctVars, attrs, feVars>>

NextTypes == CreatePointerType \/ CreateArrayType \/ CreateStructType \/ CreateFunctionType

SpecTypes == InitUseDef /\ [][NextTypes]_vars

(***************************************************************************)
(* C15 -- type registration: after any sequence of factory calls           *)
(* (create_pointer_type, create_array_type, create_struct_type,            *)
(* create_function_type), for every type object t that one of the calls    *)
(* returned, get_type(t.name) is that same object t, also when a later     *)
(* factory call built a type of the same name.                             *)
(***************************************************************************)
C15_FactoriesIntern ==
    \A t \in (Len(BuiltinNames) + 1)..Len(type_name) : get_type(type_name[t]) = t

(***************************************************************************)
(* C16 -- mutators never reject: every IR mutator call completes without   *)
(* raising an error for any arguments, so no call ends with an exception;  *)
(* in particular remove_operand(v) for a value v that is not an operand of *)
(* the instruction completes normally.                                     *)
(***************************************************************************)
C16_MutatorsNeverReject == raised = "none"

(***************************************************************************)
(* Typed instructions (core/instructions.py).  The instruction under test  *)
(* is constructed as an instance of one of the classes, its accessor       *)
(* fields being the constructor's arguments, which __attrs_post_init__     *)
(* adds as operands in the order given here; then the three operand        *)
(* mutators are called on it, each call recorded with the operand list and *)
(* the users sets it found.                                                *)
(***************************************************************************)
\* the instruction the calls are made on
TheInstruction == 1

\* the accessor fields of each class, in the order __attrs_post_init__ adds them
AccessorNames(cls) ==
    CASE cls = "BinaryInstruction"  -> <<"left", "right">>
      [] cls = "CompareInstruction" -> <<"left", "right">>
      [] cls = "StoreInstruction"   -> <<"value", "pointer">>
      [] cls = "LoadInstruction"    -> <<"pointer">>
      [] cls = "Instruction"        -> <<>>

InstructionClasses ==
    {"Instruction", "BinaryInstruction", "CompareInstruction", "StoreInstruction",
     "LoadInstruction"}

\* the values that exist when the instruction is constructed
Arguments == Values \ {TheInstruction}

\* the instructions a constructor call may build
Constructions ==
    {[cls |-> cls, accessors |-> args] :
        cls \in InstructionClasses, args \in UNION {[1..n -> Arguments] : n \in 0..2}}

InitTyped ==
    /\ InitEdges
    /\ InitNoAnalysis
    /\ InitObjects
    /\ attrs \in {a \in [Instrs -> Constructions] :
            /\ \A i \in Instrs : Len(a[i].accessors) = Len(AccessorNames(a[i].cls))
            /\ \A i \in Instrs \ {TheInstruction} : a[i] = PlainAttrs}
    /\ operands = [i \in Instrs |-> attrs[i].accessors]
    /\ users = [v \in Values |-> {i \in Instrs : v \in Range(attrs[i].accessors)}]
    /\ raised = "none"

\* what a call found: the operand list and the users sets
Recorded(op, args) ==
    call' = [op |-> op, args |-> args,
             operands |-> operands[TheInstruction], users |-> users]

AddOperandCall ==
    /\ \E v \in Values : add_operand(TheInstruction, v) /\ Recorded("add_operand", <<v>>)
    /\ UNCHANGED <<cfgVars, dfVars, trVars, symVars, tyVars, ctVars, attrs, feVars>>

ReplaceOperandCall ==
    /\ \E old \in Values, new \in Values :
          replace_operand(TheInstruction, old, new) /\ Recorded("replace_operand", <<old, new>>)
    /\ UNCHANGED <<cfgVars, dfVars, trVars, symVars, tyVars, ctVars, attrs, feVars>>

RemoveOperandCall ==
    /\ \E v \in Values :
          remove_operand(TheInstruction, v) /\ Recorded("remove_operand", <<v>>)
    /\ UNCHANGED <<cfgVars, dfVars, trVars, symVars, tyVars, ctVars, attrs, feVars>>

NextTyped == AddOperandCall \/ ReplaceOperandCall \/ RemoveOperandCall

SpecTyped == InitTyped /\ [][NextTyped]_vars

(***************************************************************************)
(* C17 -- replace_operand(old, new) replaces only the first position of    *)
(* the operand list that holds old and leaves every other position as it   *)
(* was, then updates both users sets (the instruction leaves old.users and *)
(* joins new.users); when old is not an operand nothing changes.           *)
(***************************************************************************)
\* the list ops with its first occurrence of old replaced by new
ReplaceFirst(ops, old, new) ==
    IF old \in Range(ops) THEN [ops EXCEPT ![FirstIndex(ops, old)] = new] ELSE ops

C17_ReplaceFirstOnly ==
    call.op = "replace_operand" =>
        LET old == call.args[1]
            new == call.args[2]
        IN  /\ operands[TheInstruction] = ReplaceFirst(call.operands, old, new)
            /\ users = IF old \in Range(call.operands)
                       THEN add_user(discard_user(call.users, old, TheInstruction),
                                     new, TheInstruction)
                       ELSE call.users

(***************************************************************************)
(* C18 -- typed accessors stay in lock-step with the operand list: for a   *)
(* BinaryInstruction or CompareInstruction operands[0] is left and         *)
(* operands[1] is right, for a StoreInstruction operands[0] is value and   *)
(* operands[1] is pointer, for a LoadInstruction operands[0] is pointer,   *)
(* and the instruction is in the users set of each of them, right after    *)
(* construction and after any sequence of add_operand, remove_operand and  *)
(* replace_operand calls on the instruction.                               *)
(***************************************************************************)
C18_AccessorsInLockStep ==
    \A i \in Instrs : \A k \in 1..Len(attrs[i].accessors) :
        /\ Len(operands[i]) >= k
        /\ operands[i][k] = attrs[i].accessors[k]
        /\ i \in users[attrs[i].accessors[k]]

(***************************************************************************)
(* The name-keyed containers: IR.modules, Module.functions,                *)
(* Module.global_variables (with Module.symbol_table), Function.blocks,    *)
(* TypeSystem.types and the symbols of the scopes.  The containers share   *)
(* no state, so a run inserts into one of them; lookups are made on all.   *)
(***************************************************************************)
\* BasicBlock.name of each block: two blocks share a name
block_name(b) == IF b <= 2 THEN "x" ELSE "y"

\* the names looked up; nothing is ever inserted under "z"
LookupNames == {"x", "y", "", "z"}

\* IR.get_module(name)
get_module(name) == Get(modules, name, Nil)

\* Module.get_function(name)
get_function(name) == Get(functions, name, Nil)

\* Module.get_global(name)
get_global(name) == Get(global_variables, name, Nil)

\* a get_block whose loop falls through to the last block instead of None
RECURSIVE get_block_or_last(_, _)
get_block_or_last(blks, name) ==
    IF Len(blks) = 0 THEN Nil
    ELSE IF block_name(Head(blks)) = name \/ Len(blks) = 1 THEN Head(blks)
    ELSE get_block_or_last(Tail(blks), name)

\* Function.get_block(name): the first block of the list with that name
RECURSIVE get_block(_, _)
get_block(blks, name) ==
    IF Len(blks) = 0 THEN Nil
    ELSE IF block_name(Head(blks)) = name THEN Head(blks)
    ELSE get_block(Tail(blks), name)

Families == {"modules", "functions", "globals", "blocks", "types", "symbols"}

\* the container is as constructed
Fresh(family) ==
    CASE family = "modules"   -> modules = PyDict({})
      [] family = "functions" -> functions = PyDict({})
      [] family = "globals"   -> global_variables = PyDict({}) /\ symbol_table = PyDict({})
      [] family = "blocks"    -> blocks = <<>>
      [] family = "types"     -> type_name = BuiltinNames
      [] family = "symbols"   -> symbols = <<>> /\ Len(scopes) = 1

\* no other container has been inserted into
Alone(family) == \A other \in Families \ {family} : Fresh(other)

\* IR.add_module(module): module.parent = self; self.modules[module.name] = module
AddModule ==
    /\ Alone("modules")
    /\ \E module \in Entities :
          /\ parent' = [parent EXCEPT !.module[module] = "ir"]
          /\ modules' = Put(modules, name_of(module), module)
          /\ call' = [op |-> "add_module", entity |-> module, name |-> name_of(module),
                      before |-> modules]
    /\ UNCHANGED <<irVars, cfgVars, dfVars, trVars, symVars, tyVars, attrs, instructions, feVars,
                   functions, global_variables, symbol_table, blocks>>

\* Module.add_function(function): function.parent = self;
\* self.functions[function.name] = function
AddFunction ==
    /\ Alone("functions")
    /\ \E fn \in Entities :
          /\ parent' = [parent EXCEPT !.function[fn] = "module"]
          /\ functions' = Put(functions, name_of(fn), fn)
          /\ call' = [op |-> "add_function", entity |-> fn, name |-> name_of(fn),
                      before |-> functions]
    /\ UNCHANGED <<irVars, cfgVars, dfVars, trVars, symVars, tyVars, attrs, instructions, feVars,
                   modules, global_variables, symbol_table, blocks>>

\* Module.add_global(var): only a variable with a non-empty name is stored,
\* in global_variables and in symbol_table
AddGlobal ==
    /\ Alone("globals")
    /\ \E var \in Entities :
          /\ IF name_of(var) # ""
             THEN /\ global_variables' = Put(global_variables, name_of(var), var)
                  /\ symbol_table' = Put(symbol_table, name_of(var), var)
             ELSE UNCHANGED <<global_variables, symbol_table>>
          /\ call' = [op |-> "add_global", entity |-> var, name |-> name_of(var),
                      before |-> global_variables]
    /\ UNCHANGED <<irVars, cfgVars, dfVars, trVars, symVars, tyVars, attrs, instructions, feVars,
                   modules, functions, blocks, parent>>

\* Function.add_block(block), the call recorded
AddBlockCall ==
    /\ Alone("blocks")
    /\ Len(blocks) < MaxBlockList
    /\ \E b \in Blocks :
          /\ add_block(b)
          /\ call' = [op |-> "add_block", entity |-> b, name |-> block_name(b)]
    /\ UNCHANGED <<irVars, cfgVars, dfVars, trVars, symVars, tyVars, attrs, instructions, feVars,
                   modules, functions, global_variables, symbol_table>>

\* TypeSystem.register_type(type_) with a Type object the caller constructed
RegisterType ==
    /\ Alone("types")
    /\ Len(type_name) < Len(BuiltinNames) + MaxCreated
    /\ \E name \in {"i32", "Point"} :
          LET type_ == Len(type_name) + 1
          IN  /\ type_name' = Append(type_name, name)
              /\ types' = register_type(types, name, type_)
              /\ call' = [op |-> "register_type", entity |-> type_, name |-> name,
                          before |-> types]
    /\ UNCHANGED <<irVars, cfgVars, dfVars, trVars, symVars, ctVars, attrs, feVars>>

\* the calls of the symbol table
SymbolCall ==
    /\ Alone("symbols")
    /\ (EnterScope \/ ExitScope \/ AddSymbol)

GetModule ==
    /\ \E name \in LookupNames :
          call' = [op |-> "get_module", name |-> name, result |-> get_module(name)]
    /\ UNCHANGED <<irVars, cfgVars, dfVars, trVars, symVars, tyVars, ctVars, attrs, feVars>>

GetFunction ==
    /\ \E name \in LookupNames :
          call' = [op |-> "get_function", name |-> name, result |-> get_function(name)]
    /\ UNCHANGED <<irVars, cfgVars, dfVars, trVars, symVars, tyVars, ctVars, attrs, feVars>>

GetGlobal ==
    /\ \E name \in LookupNames :
          call' = [op |-> "get_global", name |-> name, result |-> get_global(name)]
    /\ UNCHANGED <<irVars, cfgVars, dfVars, trVars, symVars, tyVars, ctVars, attrs, feVars>>

GetBlock ==
    /\ \E name \in LookupNames :
          call' = [op |-> "get_block", name |-> name, result |-> get_block(blocks, name)]
    /\ UNCHANGED <<irVars, cfgVars, dfVars, trVars, symVars, tyVars, ctVars, attrs, feVars>>

GetType ==
    /\ \E name \in {"i32", "Point", "z"} :
          call' = [op |-> "get_type", name |-> name, result |-> get_type(name)]
    /\ UNCHANGED <<irVars, cfgVars, dfVars, trVars, symVars, tyVars, ctVars, attrs, feVars>>

NextContainers ==
    \/ AddModule \/ AddFunction \/ AddGlobal \/ AddBlockCall \/ RegisterType \/ SymbolCall
    \/ GetModule \/ GetFunction \/ GetGlobal \/ GetBlock \/ GetType \/ LookupSymbol

SpecContainers == InitUseDef /\ [][NextContainers]_vars

(***************************************************************************)
(* C19 -- not-found lookups return an absent result and never fail:        *)
(* get_module, get_function, get_global, get_block, get_type and           *)
(* lookup_symbol, called with a name under which nothing was ever inserted *)
(* into the container (an empty container included), return None, and the *)
(* call raises nothing.                                                    *)
(***************************************************************************)
\* the names under which something was inserted into the container, from
\* what the insertions left outside the container's dict or list
InsertedNames(op) ==
    CASE op = "get_module"    -> {name_of(e) : e \in {m \in Entities : parent.module[m] # "None"}}
      [] op = "get_function"  -> {name_of(e) : e \in {f \in Entities : parent.function[f] # "None"}}
      [] op = "get_global"    -> Keys(symbol_table)
      [] op = "get_block"     -> {block_name(b) : b \in {c \in Blocks : parent.block[c] # "None"}}
      [] op = "get_type"      -> Range(type_name)
      [] op = "lookup_symbol" -> {symbols[k].name : k \in 1..Len(symbols)}

LookupOps ==
    {"get_module", "get_function", "get_global", "get_block", "get_type", "lookup_symbol"}

C19_NotFoundIsNone ==
    /\ raised = "none"
    /\ (call.op \in LookupOps /\ call.name \notin InsertedNames(call.op)) => call.result = Nil
    /\ \A name \in LookupNames :
          /\ name \notin InsertedNames("get_module") => get_module(name) = Nil
          /\ name \notin InsertedNames("get_function") => get_function(name) = Nil
          /\ name \notin InsertedNames("get_global") => get_global(name) = Nil
          /\ name \notin InsertedNames("get_block") => get_block(blocks, name) = Nil
          /\ name \notin InsertedNames("get_type") => get_type(name) = Nil
          /\ name \notin InsertedNames("lookup_symbol") => lookup_symbol(name, FALSE) = Nil

\* get_block was called on a function with two blocks for a name that none
\* of them has, and returned None
C19_Witness ==
    /\ call.op = "get_block"
    /\ Len(blocks) >= 2
    /\ call.name \notin {block_name(blocks[k]) : k \in 1..Len(blocks)}
    /\ call.result = Nil

(***************************************************************************)
(* C20 -- duplicate-name insertion is last-write-wins: after add_function, *)
(* add_global, add_module, register_type or Scope.add_symbol is called     *)
(* with an entity whose name is already present, the matching lookup       *)
(* returns the entity just inserted, the container has one entry for that  *)
(* name, and the entries under other names are as they were.               *)
(***************************************************************************)
\* the container an insertion wrote to
Container(op) ==
    CASE op = "add_module"    -> modules
      [] op = "add_function"  -> functions
      [] op = "add_global"    -> global_variables
      [] op = "register_type" -> types
      [] op = "add_symbol"    -> scopes[current_scope].symbols

\* what the matching lookup returns for the name
Lookup(op, name) ==
    CASE op = "add_module"    -> get_module(name)
      [] op = "add_function"  -> get_function(name)
      [] op = "add_global"    -> get_global(name)
      [] op = "register_type" -> get_type(name)
      [] op = "add_symbol"    -> lookup_symbol(name, TRUE)

InsertOps == {"add_module", "add_function", "add_global", "register_type", "add_symbol"}

C20_LastWriteWins ==
    (call.op \in InsertOps /\ call.name \in Keys(call.before)) =>
        /\ Lookup(call.op, call.name) = call.entity
        /\ Cardinality({p \in Container(call.op).items : p[1] = call.name}) = 1
        /\ {p \in Container(call.op).items : p[1] # call.name}
              = {p \in call.before.items : p[1] # call.name}

\* a function was added under a name that another function held, while a
\* function of another name is in the module
C20_Witness ==
    /\ call.op = "add_function"
    /\ call.name \in Keys(call.before)
    /\ Get(call.before, call.name, Nil) # call.entity
    /\ \E n \in Keys(functions) : n # call.name

(***************************************************************************)
(* The scope tree under reset() and clear_scope(), and the dictionaries    *)
(* get_scope_symbols() returns (core/symbol.py, SymbolTable).              *)
(***************************************************************************)
\* a reset() that installs the new global scope and keeps the current scope
Reset_keeps_current_scope ==
    /\ Len(scopes) < MaxScopes
    /\ scopes' = Append(scopes, [name |-> "global", parent |-> Nil, children |-> <<>>,
                                 symbols |-> PyDict({})])
    /\ global_scope' = Len(scopes) + 1
    /\ call' = [op |-> "reset", before |-> scopes]
    /\ UNCHANGED <<irVars, cfgVars, dfVars, trVars, symbols, current_scope, tyVars, ctVars,
                   attrs, feVars>>

\* SymbolTable.reset(): a new Scope named "global" becomes the global scope
\* and the current scope; the scopes of the old tree are left as they are
Reset ==
    /\ Len(scopes) < MaxScopes
    /\ scopes' = Append(scopes, [name |-> "global", parent |-> Nil, children |-> <<>>,
                                 symbols |-> PyDict({})])
    /\ global_scope' = Len(scopes) + 1
    /\ current_scope' = Len(scopes) + 1
    /\ call' = [op |-> "reset", before |-> scopes]
    /\ UNCHANGED <<irVars, cfgVars, dfVars, trVars, symbols, tyVars, ctVars, attrs, feVars>>

\* a clear_scope() that empties every scope of the table
ClearScope_clears_every_scope ==
    /\ scopes' = [sc \in 1..Len(scopes) |-> [scopes[sc] EXCEPT !.symbols = PyDict({})]]
    /\ call' = [op |-> "clear_scope", before |-> scopes, current |-> current_scope,
                global |-> global_scope]
    /\ UNCHANGED <<irVars, cfgVars, dfVars, trVars, symbols, current_scope, global_scope,
                   tyVars, ctVars, attrs, feVars>>

\* SymbolTable.clear_scope(): self.current_scope.symbols.clear()
ClearScope ==
    /\ scopes' = [scopes EXCEPT ![current_scope].symbols = PyDict({})]
    /\ call' = [op |-> "clear_scope", before |-> scopes, current |-> current_scope,
                global |-> global_scope]
    /\ UNCHANGED <<irVars, cfgVars, dfVars, trVars, symbols, current_scope, global_scope,
                   tyVars, ctVars, attrs, feVars>>

\* a loop of get_scope_symbols that writes every name it meets, so that an
\* outer symbol replaces the inner one
RECURSIVE collect_symbols_overwrites(_, _, _)
collect_symbols_overwrites(scps, scope, syms) ==
    IF scope = Nil THEN syms
    ELSE collect_symbols_overwrites(scps, scps[scope].parent,
             PyDict({p \in syms.items : p[1] \notin Keys(scps[scope].symbols)}
                    \cup scps[scope].symbols.items))

\* the loop of get_scope_symbols over the scope and its ancestors: a name
\* already in the dictionary is not written again
RECURSIVE collect_symbols(_, _, _)
collect_symbols(scps, scope, syms) ==
    IF scope = Nil THEN syms
    ELSE collect_symbols(scps, scps[scope].parent,
                         PyDict(syms.items \cup
                                {p \in scps[scope].symbols.items : p[1] \notin Keys(syms)}))

\* SymbolTable.get_scope_symbols(include_parent_scopes)
get_scope_symbols(include_parent_scopes) ==
    IF ~include_parent_scopes
    THEN PyDict(scopes[current_scope].symbols.items)
    ELSE collect_symbols(scopes, current_scope, PyDict({}))

GetScopeSymbols ==
    /\ \E include_parent_scopes \in BOOLEAN :
          call' = [op |-> "get_scope_symbols",
                   include_parent_scopes |-> include_parent_scopes,
                   result |-> get_scope_symbols(include_parent_scopes)]
    /\ UNCHANGED <<irVars, cfgVars, dfVars, trVars, symVars, tyVars, ctVars, attrs, feVars>>

NextScopes ==
    \/ EnterScope \/ ExitScope \/ Reset \/ ClearScope
    \/ AddSymbol \/ LookupSymbol \/ GetScopeSymbols

SpecScopes == InitUseDef /\ [][NextScopes]_vars

(***************************************************************************)
(* C21 -- the scope tree is well formed: after any sequence of             *)
(* enter_scope, exit_scope and reset calls the current scope is reachable  *)
(* from the global scope through children links, and the parent chain of   *)
(* the current scope ends at the global scope.  exit_scope called in the   *)
(* root scope leaves the current scope as it is, and k calls of            *)
(* enter_scope followed by k calls of exit_scope return to the scope that  *)
(* was current before them.                                                *)
(***************************************************************************)
\* the scopes reachable from sc through children links, sc included
RECURSIVE Descendants(_)
Descendants(sc) ==
    {sc} \cup UNION {Descendants(scopes[sc].children[k]) : k \in 1..Len(scopes[sc].children)}

\* the scope at which the parent chain of sc ends
RECURSIVE Root(_)
Root(sc) == IF scopes[sc].parent = Nil THEN sc ELSE Root(scopes[sc].parent)

C21_ScopeTreeWellFormed ==
    /\ current_scope \in Descendants(global_scope)
    /\ Root(current_scope) = global_scope
    /\ (call.op = "exit_scope" /\ scopes[call.exited].parent = Nil) =>
            current_scope = call.exited
    /\ (call.op = "exit_scope" /\ call.matched # Nil) => current_scope = call.matched

\* two enter_scope calls and then two exit_scope calls have returned to the
\* global scope
C21_Witness ==
    /\ call.op = "exit_scope"
    /\ call.matched = global_scope
    /\ call.entered_from = <<>>
    /\ current_scope = global_scope
    /\ scopes[call.exited].parent = global_scope
    /\ \E inner \in 1..Len(scopes) : scopes[inner].parent = call.exited

(***************************************************************************)
(* C22 -- get_scope_symbols agrees with lookup_symbol: the dictionary      *)
(* get_scope_symbols(include_parent_scopes=True) returns has exactly the   *)
(* names bound in the current scope or in one of its ancestors, each       *)
(* mapped to the symbol lookup_symbol returns for that name; without the   *)
(* flag the dictionary holds exactly the bindings of the current scope.    *)
(***************************************************************************)
\* the current scope and its ancestors
RECURSIVE Ancestors(_)
Ancestors(sc) == {sc} \cup (IF scopes[sc].parent = Nil THEN {} ELSE Ancestors(scopes[sc].parent))

\* the names bound on the chain from the current scope to its root
BoundNames == UNION {Keys(scopes[sc].symbols) : sc \in Ancestors(current_scope)}

\* the dictionary that maps each bound name to what lookup_symbol returns
LookupDict == PyDict({<<n, lookup_symbol(n, FALSE)>> : n \in BoundNames})

C22_ScopeSymbolsAgreeWithLookup ==
    /\ get_scope_symbols(TRUE) = LookupDict
    /\ get_scope_symbols(FALSE) = scopes[current_scope].symbols
    /\ call.op = "get_scope_symbols" =>
            call.result = IF call.include_parent_scopes THEN LookupDict
                          ELSE scopes[current_scope].symbols

\* get_scope_symbols(include_parent_scopes=True) was called in a scope that
\* rebinds one name of its parent scope and leaves the other to the parent
C22_Witness ==
    /\ call.op = "get_scope_symbols"
    /\ call.include_parent_scopes
    /\ scopes[current_scope].parent # Nil
    /\ \E n \in SymbolNames :
          /\ n \in Keys(scopes[current_scope].symbols)
          /\ n \in Keys(scopes[scopes[current_scope].parent].symbols)
    /\ \E n \in SymbolNames :
          /\ n \notin Keys(scopes[current_scope].symbols)
          /\ n \in Keys(call.result)

(***************************************************************************)
(* C23 -- clear_scope and reset: clear_scope() empties the symbol map of   *)
(* the current scope and nothing else; the current scope, the scope tree   *)
(* and the symbol maps of all other scopes are as before.  reset()         *)
(* installs a new, empty global scope as the current scope, so that every  *)
(* lookup_symbol made after it returns None.                               *)
(***************************************************************************)
C23_ClearAndReset ==
    /\ call.op = "clear_scope" =>
          /\ current_scope = call.current
          /\ global_scope = call.global
          /\ Len(scopes) = Len(call.before)
          /\ scopes[current_scope].symbols = PyDict({})
          /\ \A sc \in 1..Len(scopes) :
                /\ scopes[sc].name = call.before[sc].name
                /\ scopes[sc].parent = call.before[sc].parent
                /\ scopes[sc].children = call.before[sc].children
                /\ sc # current_scope => scopes[sc].symbols = call.before[sc].symbols
    /\ call.op = "reset" =>
          /\ global_scope \notin 1..Len(call.before)
          /\ current_scope = global_scope
          /\ scopes[global_scope] = [name |-> "global", parent |-> Nil, children |-> <<>>,
                                     symbols |-> PyDict({})]
          /\ \A sc \in 1..Len(call.before) : scopes[sc] = call.before[sc]
          /\ \A n \in SymbolNames, current_scope_only \in BOOLEAN :
                lookup_symbol(n, current_scope_only) = Nil
          /\ get_scope_symbols(TRUE) = PyDict({})
    \* a symbol added before a reset is never found after it
    /\ \A n \in SymbolNames :
          lookup_symbol(n, FALSE) # Nil =>
              Root(symbols[lookup_symbol(n, FALSE)].scope) = global_scope

\* clear_scope() was called in an inner scope that held a symbol, while the
\* scope around it holds one too
C23_Witness ==
    /\ call.op = "clear_scope"
    /\ scopes[current_scope].parent # Nil
    /\ call.before[current_scope].symbols # PyDict({})
    /\ scopes[scopes[current_scope].parent].symbols # PyDict({})

(***************************************************************************)
(* Frontend diagnostics (frontends/common/frontend.py): a Frontend and     *)
(* the Parser it created each keep an errors and a warnings list.          *)
(***************************************************************************)
MaxDiagnostics == 3    \* entries appended to the four lists together

Messages == {"Test error", "Parser error"}

\* the location argument: None, or a SourceLocation
NoLocation == [given |-> FALSE]
Locations ==
    {NoLocation, [given |-> TRUE, file |-> "test.py", start_line |-> 1, start_column |-> 0]}

\* the entry add_error and add_warning append
entry(message, location) ==
    IF location.given
    THEN location.file \o ":" \o ToString(location.start_line) \o ":"
             \o ToString(location.start_column) \o ": " \o message
    ELSE message

Diagnostics == Len(errors["frontend"]) + Len(errors["parser"])
                   + Len(warnings["frontend"]) + Len(warnings["parser"])

\* Frontend.add_error, Parser.add_error
AddError ==
    /\ Diagnostics < MaxDiagnostics
    /\ \E o \in Reporters, message \in Messages, location \in Locations :
          /\ errors' = [errors EXCEPT ![o] = Append(@, entry(message, location))]
          /\ call' = [op |-> "add_error", object |-> o, message |-> message,
                      location |-> location, errors |-> errors, warnings |-> warnings]
    /\ UNCHANGED <<irVars, cfgVars, dfVars, trVars, symVars, tyVars, ctVars, attrs, warnings>>

\* Frontend.add_warning, Parser.add_warning
AddWarning ==
    /\ Diagnostics < MaxDiagnostics
    /\ \E o \in Reporters, message \in Messages, location \in Locations :
          /\ warnings' = [warnings EXCEPT ![o] = Append(@, entry(message, location))]
          /\ call' = [op |-> "add_warning", object |-> o, message |-> message,
                      location |-> location, errors |-> errors, warnings |-> warnings]
    /\ UNCHANGED <<irVars, cfgVars, dfVars, trVars, symVars, tyVars, ctVars, attrs, errors>>

\* a has_errors() that looks at the frontend's own list only
has_errors_of_frontend_only == Len(errors["frontend"]) > 0

\* Frontend.has_errors()
has_errors == Len(errors["frontend"]) > 0 \/ Len(errors["parser"]) > 0

\* Frontend.get_all_errors()
get_all_errors == errors["frontend"] \o errors["parser"]

\* Frontend.get_all_warnings()
get_all_warnings == warnings["frontend"] \o warnings["parser"]

HasErrors ==
    /\ call' = [op |-> "has_errors", result |-> has_errors]
    /\ UNCHANGED <<irVars, cfgVars, dfVars, trVars, symVars, tyVars, ctVars, attrs, feVars>>

GetAllErrors ==
    /\ call' = [op |-> "get_all_errors", result |-> get_all_errors]
    /\ UNCHANGED <<irVars, cfgVars, dfVars, trVars, symVars, tyVars, ctVars, attrs, feVars>>

GetAllWarnings ==
    /\ call' = [op |-> "get_all_warnings", result |-> get_all_warnings]
    /\ UNCHANGED <<irVars, cfgVars, dfVars, trVars, symVars, tyVars, ctVars, attrs, feVars>>

NextFrontend == AddError \/ AddWarning \/ HasErrors \/ GetAllErrors \/ GetAllWarnings

SpecFrontend == InitUseDef /\ [][NextFrontend]_vars

(***************************************************************************)
(* C24 -- diagnostics accumulate: each add_error or add_warning call on a  *)
(* Frontend or a Parser appends exactly one entry to that object's own     *)
(* list of that kind, changes no other list and raises nothing.            *)
(* Frontend.has_errors() is true exactly when get_all_errors() is not      *)
(* empty, and get_all_errors() is the frontend's errors followed by the    *)
(* parser's errors, each in insertion order.                               *)
(***************************************************************************)
\* the list of object o has one entry more, behind the entries it had, and
\* the list of the other object is as it was
OnlyAppended(before, after, o) ==
    /\ Len(after[o]) = Len(before[o]) + 1
    /\ SubSeq(after[o], 1, Len(before[o])) = before[o]
    /\ \A other \in Reporters \ {o} : after[other] = before[other]

C24_DiagnosticsAccumulate ==
    /\ raised = "none"
    /\ call.op = "add_error" =>
          /\ OnlyAppended(call.errors, errors, call.object)
          /\ errors[call.object][Len(errors[call.object])] = entry(call.message, call.location)
          /\ warnings = call.warnings
    /\ call.op = "add_warning" =>
          /\ OnlyAppended(call.warnings, warnings, call.object)
          /\ errors = call.errors
    /\ has_errors <=> get_all_errors # <<>>
    /\ Len(get_all_errors) = Len(errors["frontend"]) + Len(errors["parser"])
    /\ \A k \in 1..Len(get_all_errors) :
          get_all_errors[k] = IF k <= Len(errors["frontend"]) THEN errors["frontend"][k]
                              ELSE errors["parser"][k - Len(errors["frontend"])]
    /\ call.op = "has_errors" => (call.result <=> get_all_errors # <<>>)
    /\ call.op = "get_all_errors" => call.result = get_all_errors

\* has_errors() returned True for a frontend without errors of its own whose
\* parser has two, after a warning was added to the frontend
C24_Witness ==
    /\ call.op = "has_errors"
    /\ call.result
    /\ errors["frontend"] = <<>>
    /\ Len(errors["parser"]) = 2
    /\ Len(warnings["frontend"]) = 1

(***************************************************************************)
(* C25 -- the result is a fixpoint: when analyze() returns, for reaching   *)
(* definitions and constant propagation every node's in set is the meet of *)
(* the out sets its predecessors hold then (of one initial element when it *)
(* has no predecessor) and its out set is flow_function of its in set; for *)
(* live variables every node's out set is the meet of the in sets of its   *)
(* successors and its in set is flow_function of its out set.  This holds  *)
(* for every order in which the worklist pops nodes.                       *)
(***************************************************************************)
\* the meet over the sets the neighbours hold in the current state
MeetOf(neighbors, sets) ==
    meet_operator(analysis, cfg, killed_vars, neighbor_sets(analysis, neighbors, sets))

FixpointAt(n) ==
    IF is_forward(analysis)
    THEN /\ in_sets[n] = MeetOf(cfg.predecessors[n], out_sets)
         /\ out_sets[n] = flow_function(analysis, function, n, in_sets[n])
    ELSE /\ out_sets[n] = MeetOf(cfg.successors[n], in_sets)
         /\ in_sets[n] = flow_function(analysis, function, n, out_sets[n])

C25_FixpointOnReturn ==
    (Returned /\ analysis \in PlainClasses) => \A n \in Nodes : FixpointAt(n)

\* a plain analysis has returned on a function in which a node with a
\* non-empty out set lies on a cycle and a node has two predecessors
C25_Witness ==
    /\ Returned
    /\ analysis \in PlainClasses
    /\ \E n \in Nodes : Reaches(cfg, n, n) /\ out_sets[n].items # {}
    /\ \E n \in Nodes : Cardinality(cfg.predecessors[n]) >= 2 /\ in_sets[n].items # {}
    /\ \E n \in Nodes : cfg.predecessors[n] = {} /\ cfg.successors[n] # {}

(***************************************************************************)
(* C26 -- the available-expressions meet applies the global kill for any   *)
(* number of predecessors: also when a visit computes in_sets[n] for a     *)
(* node n with exactly one predecessor, in_sets[n] holds no expression     *)
(* with an operand name in the union of the killed_vars recorded so far;   *)
(* it is the predecessor's out set with those expressions removed.         *)
(***************************************************************************)
\* the step is the visit of node n
Visits(n) ==
    /\ calls > 0
    /\ n \in worklist
    /\ [in_sets |-> in_sets', out_sets |-> out_sets', killed_vars |-> killed_vars',
        var_versions |-> var_versions', worklist |-> worklist']
           = visit(analysis, function, cfg, State, n)

C26_SinglePredecessorKill ==
    [][\A n \in Blocks, p \in Blocks :
          (analysis = "AvailableExpressions" /\ Visits(n) /\ cfg.predecessors[n] = {p}) =>
              in_sets'[n] = PySet({e \in out_sets[p].items :
                                      ~uses_any(e, all_killed_vars(cfg, killed_vars))})]_vars

(***************************************************************************)
(* C27 -- reaching-definitions transfer is applied instruction by          *)
(* instruction in block order, each named instruction killing every        *)
(* definition of its name in the running out set, the definitions          *)
(* generated earlier in the same block included: when a block holds two or *)
(* more instructions with the same name v, out_sets of that block holds    *)
(* exactly one pair for v, the one with the last such instruction.         *)
(***************************************************************************)
\* the positions of the instructions named v in block b
PositionsOf(fn, b, v) ==
    {k \in 1..Len(fn.blocks[b].instructions) : fn.blocks[b].instructions[k].name = v}

\* the last of them
LastPositionOf(fn, b, v) ==
    CHOOSE k \in PositionsOf(fn, b, v) : \A j \in PositionsOf(fn, b, v) : j <= k

C27_LastDefinitionOnly ==
    (Returned /\ analysis = "ReachingDefinitions") =>
        \A n \in Nodes : \A v \in BlockNames(function, n) :
            Cardinality(PositionsOf(function, n, v)) >= 2 =>
                {d \in out_sets[n].items : d[1] = v}
                    = {<<v, <<n, LastPositionOf(function, n, v)>>>>}

(***************************************************************************)
(* ConstantPropagationAnalysis.flow_function as a function of its          *)
(* arguments: it is called once on the node of a one-block function, with  *)
(* any in map over three names.  The instructions of the block have no,    *)
(* one or two operands: constants, named and unnamed instructions and      *)
(* plain values.                                                           *)
(***************************************************************************)
FlowNames == {"a", "b"}

FlowOperands ==
    {<<>>, <<Const(1)>>, <<Ref("a")>>, <<Ref("b")>>, <<Ref("")>>, <<Plain("a")>>,
     <<Const(1), Const(2)>>, <<Const(1), Ref("a")>>, <<Ref("a"), Ref("b")>>,
     <<Ref("a"), Plain("b")>>, <<Ref("b"), Ref("")>>}

FlowInstructions ==
    {Instr("Instruction", name, ops) : name \in FlowNames, ops \in FlowOperands}
        \cup {Instr("Instruction", "", <<Const(1)>>)}

MaxFlowBody == 2    \* instructions of the block

FlowBodies == UNION {[1..n -> FlowInstructions] : n \in 0..MaxFlowBody}

\* the in maps: each of the names a, b and c is absent, CONST or TOP
FlowInputs ==
    {PyDict({<<v, f[v]>> : v \in {w \in DOMAIN f : f[w] # "absent"}}) :
        f \in [{"a", "b", "c"} -> {"absent", "CONST", "TOP"}]}

InitFlow ==
    /\ InitIR
    /\ InitEdges
    /\ InitObjects
    /\ InitPlainInstructions
    /\ analysis = "ConstantPropagation"
    /\ function \in {MakeFunction(<<body>>, <<{}>>) : body \in FlowBodies}
    /\ cfg = build_cfg(function)
    /\ in_sets = <<>>
    /\ out_sets = <<>>
    /\ killed_vars = <<>>
    /\ var_versions = <<>>
    /\ worklist = {}
    /\ calls = 0
    /\ steps = 0
    /\ pops = <<>>
    /\ first = <<>>

\* a flow_function that writes to the dict it was given instead of a copy
CP_flow_call_without_copy(fn, node, in_set) ==
    [result |-> CP_flow_function(fn, node, in_set),
     in_set |-> CP_flow_function(fn, node, in_set)]

\* the call flow_function(node, in_set): out_set = in_set.copy() is the only
\* dict written, so the caller's dict is as passed when the call returns
CP_flow_call(fn, node, in_set) ==
    [result |-> CP_flow_function(fn, node, in_set), in_set |-> in_set]

FlowFunction ==
    /\ call = NoCall
    /\ \E node \in get_nodes(cfg), in_set \in FlowInputs :
          call' = [op |-> "flow_function", node |-> node, in_set |-> in_set,
                   returned |-> CP_flow_call(function, node, in_set)]
    /\ UNCHANGED <<irVars, cfgVars, dfVars, trVars, symVars, tyVars, ctVars, attrs, feVars>>

SpecFlow == InitFlow /\ [][FlowFunction]_vars

(***************************************************************************)
(* C28 -- constant-propagation transfer, single operand: for a named       *)
(* instruction with exactly one operand the status written for its name is *)
(* CONST when the operand is a Constant, the current status of the         *)
(* operand's name when the operand is a named instruction (from the        *)
(* evolving out map, else the in map, else TOP), and TOP in every other    *)
(* case (an unnamed instruction or a plain Value as operand), even when    *)
(* the in map already maps that name to CONST.                             *)
(***************************************************************************)
\* the instructions of the block flow_function was called on
FlowBlock == function.blocks[call.node].instructions

\* the out map of the call when the loop has processed the first k
\* instructions of the block
OutAfter(k) == CP_loop(SubSeq(FlowBlock, 1, k), 1, call.in_set, call.in_set)

\* the status a name has in the evolving out map, else in the in map, else TOP
CurrentStatus(out_set, name) ==
    IF name \in Keys(out_set) THEN Get(out_set, name, "TOP")
    ELSE IF name \in Keys(call.in_set) THEN Get(call.in_set, name, "TOP")
    ELSE "TOP"

IsNamedInstruction(operand) == operand.kind = "Instruction" /\ operand.name # ""

\* the status the instruction at position k is to write
StatusToWrite(k) ==
    LET i == FlowBlock[k]
    IN  IF Len(i.operands) = 1
        THEN IF i.operands[1].kind = "Constant" THEN "CONST"
             ELSE IF IsNamedInstruction(i.operands[1])
                  THEN CurrentStatus(OutAfter(k - 1), i.operands[1].name)
                  ELSE "TOP"
        ELSE IF Len(i.operands) >= 2
        THEN IF \A j \in 1..Len(i.operands) :
                    \/ i.operands[j].kind = "Constant"
                    \/ /\ IsNamedInstruction(i.operands[j])
                       /\ CurrentStatus(OutAfter(k - 1), i.operands[j].name) = "CONST"
             THEN "CONST" ELSE "TOP"
        ELSE "TOP"

\* no later instruction of the block has the name of the instruction at k
LastOfItsName(k) == \A j \in (k + 1)..Len(FlowBlock) : FlowBlock[j].name # FlowBlock[k].name

\* the instruction at k leaves its name with the status it is to write, in
\* the evolving map and, when it is the last of its name, in the returned map
WritesItsStatus(k) ==
    /\ Get(OutAfter(k), FlowBlock[k].name, "absent") = StatusToWrite(k)
    /\ LastOfItsName(k) =>
          Get(call.returned.result, FlowBlock[k].name, "absent") = StatusToWrite(k)

C28_SingleOperandStatus ==
    call.op = "flow_function" =>
        \A k \in 1..Len(FlowBlock) :
            (FlowBlock[k].name # "" /\ Len(FlowBlock[k].operands) = 1) => WritesItsStatus(k)

(***************************************************************************)
(* C29 -- constant-propagation transfer, other arities: a named            *)
(* instruction with two or more operands gets CONST if and only if every   *)
(* operand is a Constant or a named instruction whose name currently has   *)
(* the status CONST, and TOP otherwise; a named instruction with no        *)
(* operands gets TOP; the instructions are processed in block order, so a  *)
(* later instruction sees the statuses written by the earlier ones of the  *)
(* block.                                                                  *)
(***************************************************************************)
C29_OtherAritiesStatus ==
    call.op = "flow_function" =>
        \A k \in 1..Len(FlowBlock) :
            (FlowBlock[k].name # "" /\ Len(FlowBlock[k].operands) # 1) => WritesItsStatus(k)

\* the second instruction of the block got CONST from two operands, a
\* Constant and the name the first instruction made CONST, which the in map
\* holds as TOP
C29_Witness ==
    /\ call.op = "flow_function"
    /\ Len(FlowBlock) = 2
    /\ FlowBlock[1] = Instr("Instruction", "a", <<Const(1)>>)
    /\ FlowBlock[2] = Instr("Instruction", "b", <<Const(1), Ref("a")>>)
    /\ Get(call.in_set, "a", "absent") = "TOP"
    /\ Get(call.returned.result, "b", "absent") = "CONST"

(***************************************************************************)
(* C30 -- constant-propagation frame: for every name v that is a key of    *)
(* the in map passed to flow_function and is not the name of an            *)
(* instruction of the node's block, the out map has the status the in map  *)
(* has for v; and flow_function does not change the in map it was given.   *)
(***************************************************************************)
C30_FlowFrame ==
    call.op = "flow_function" =>
        /\ \A v \in Keys(call.in_set) :
              v \notin BlockNames(function, call.node) =>
                  /\ v \in Keys(call.returned.result)
                  /\ Get(call.returned.result, v, "absent") = Get(call.in_set, v, "absent")
        /\ call.returned.in_set = call.in_set

\* the block defines a and reads b; the in map holds a, b and c, and the
\* returned map changed the status of a
C30_Witness ==
    /\ call.op = "flow_function"
    /\ BlockNames(function, call.node) = {"a"}
    /\ Keys(call.in_set) = {"a", "b", "c"}
    /\ Get(call.in_set, "b", "absent") # Get(call.in_set, "c", "absent")
    /\ Get(call.returned.result, "a", "absent") # Get(call.in_set, "a", "absent")

(***************************************************************************)
(* Expression.from_instruction as a function of the instruction: it is     *)
(* called on the instructions of a one-block function, which are of four   *)
(* classes and have up to MaxExprOperands operands: a constant, named and  *)
(* unnamed instructions and a named plain value.                           *)
(***************************************************************************)
MaxExprOperands == 3    \* operands of an instruction
MaxExprBody == 2        \* instructions of the block

ExprClasses == {"AddInstruction", "MulInstruction", "AssignInstruction", "SubInstruction"}

ExprOperands == {Const(1), Ref("x"), Ref("y"), Ref(""), Plain("x")}

ExprInstructions ==
    {Instr(cls, "a", ops) :
        cls \in ExprClasses, ops \in UNION {[1..n -> ExprOperands] : n \in 0..MaxExprOperands}}

InitExpr ==
    /\ InitIR
    /\ InitEdges
    /\ InitObjects
    /\ InitPlainInstructions
    /\ analysis = "none"
    /\ function \in {MakeFunction(<<body>>, <<{}>>) :
                        body \in UNION {[1..n -> ExprInstructions] : n \in 1..MaxExprBody}}
    /\ cfg = build_cfg(function)
    /\ in_sets = <<>>
    /\ out_sets = <<>>
    /\ killed_vars = <<>>
    /\ var_versions = <<>>
    /\ worklist = {}
    /\ calls = 0
    /\ steps = 0
    /\ pops = <<>>
    /\ first = <<>>

\* Expression.from_instruction(instruction) is called on an instruction of
\* the block
FromInstruction ==
    /\ \E k \in 1..Len(function.blocks[1].instructions) :
          call' = [op |-> "from_instruction",
                   instruction |-> function.blocks[1].instructions[k],
                   result |-> from_instruction(function.blocks[1].instructions[k])]
    /\ UNCHANGED <<irVars, cfgVars, dfVars, trVars, symVars, tyVars, ctVars, attrs, feVars>>

SpecExpr == InitExpr /\ [][FromInstruction]_vars

(***************************************************************************)
(* C31 -- expression eligibility: Expression.from_instruction yields an    *)
(* expression exactly when the instruction has at least two operands, its  *)
(* class is AddInstruction, MulInstruction or AssignInstruction, and every *)
(* operand is a Constant or a Value with a non-empty name (any named       *)
(* Value, not only a named Instruction); every other instruction yields    *)
(* none.                                                                   *)
(***************************************************************************)
Eligible(i) ==
    /\ Len(i.operands) >= 2
    /\ i.cls \in {"AddInstruction", "MulInstruction", "AssignInstruction"}
    /\ \A k \in 1..Len(i.operands) : i.operands[k].kind = "Constant" \/ i.operands[k].name # ""

C31_ExpressionEligibility ==
    call.op = "from_instruction" => (call.result # None <=> Eligible(call.instruction))

(***************************************************************************)
(* C32 -- expression identity ignores operand order: two eligible          *)
(* instructions of the same class whose operand lists are permutations of  *)
(* each other by name (x+y and y+x) yield equal Expression values, so one  *)
(* set entry stands for both; instructions of different classes over the   *)
(* same operands yield different expressions.                              *)
(***************************************************************************)
\* what an operand is named by: its name, or the literal of a Constant
NamedBy(o) == IF o.kind = "Constant" THEN <<"const", o.value>> ELSE <<"name", o.name>>

\* how often the operand list ops holds an operand named by t
Occurrences(ops, t) == Cardinality({k \in 1..Len(ops) : NamedBy(ops[k]) = t})

\* the operand lists are permutations of each other by name
PermutationByName(ops1, ops2) ==
    /\ Len(ops1) = Len(ops2)
    /\ \A k \in 1..Len(ops1) :
          Occurrences(ops1, NamedBy(ops1[k])) = Occurrences(ops2, NamedBy(ops1[k]))

C32_OperandOrderIgnored ==
    call.op = "from_instruction" =>
        \A k \in 1..Len(function.blocks[1].instructions) :
            LET other == function.blocks[1].instructions[k]
            IN  (call.result # None /\ from_instruction(other) # None
                   /\ PermutationByName(call.instruction.operands, other.operands)) =>
                    /\ other.cls = call.instruction.cls =>
                          /\ from_instruction(other) = call.result
                          /\ Cardinality({from_instruction(other), call.result}) = 1
                    /\ other.cls # call.instruction.cls =>
                          from_instruction(other) # call.result

\* from_instruction was called on an addition over y, a constant and x while
\* the block also holds the addition over x, y and the constant
C32_Witness ==
    /\ call.op = "from_instruction"
    /\ call.instruction = Instr("AddInstruction", "a", <<Ref("y"), Const(1), Ref("x")>>)
    /\ Len(function.blocks[1].instructions) = 2
    /\ function.blocks[1].instructions[1]
           = Instr("AddInstruction", "a", <<Ref("x"), Ref("y"), Const(1)>>)
    /\ call.result = Expr("add", <<"const_1", "x", "y">>)

(***************************************************************************)
(* Ownership (core/ir.py): an instruction may be added to any block, any   *)
(* number of times.  The model has one IR, one Module and one Function,    *)
(* which own the modules, functions and blocks added to them.              *)
(***************************************************************************)
MaxInstructionList == 2    \* instructions of one block

\* BasicBlock.add_instruction(instr): instr.parent = self;
\* self.instructions.append(instr)
AddInstruction ==
    /\ \E b \in Blocks, instr \in Instrs :
          /\ Len(instructions[b]) < MaxInstructionList
          /\ parent' = [parent EXCEPT !.instruction[instr] = b]
          /\ instructions' = [instructions EXCEPT ![b] = Append(@, instr)]
          /\ call' = [op |-> "add_instruction", block |-> b, entity |-> instr,
                      before |-> instructions]
    /\ UNCHANGED <<irVars, cfgVars, dfVars, trVars, symVars, tyVars, attrs, feVars,
                   modules, functions, global_variables, symbol_table, blocks>>

NextOwnership == AddInstruction \/ AddBlockCall \/ AddFunction \/ AddModule

SpecOwnership == InitUseDef /\ [][NextOwnership]_vars

(***************************************************************************)
(* C33 -- ownership back-pointers: after any sequence of                   *)
(* BasicBlock.add_instruction, Function.add_block, Module.add_function and *)
(* IR.add_module calls (the same child may be added to several containers  *)
(* or several times), every instruction listed in b.instructions has       *)
(* parent b, every block listed in f.blocks has parent f, every function   *)
(* stored in m.functions has parent m and every module stored in           *)
(* ir.modules has parent ir; the instructions appear in b.instructions in  *)
(* the order they were added.                                              *)
(***************************************************************************)
C33_OwnershipBackPointers ==
    /\ \A b \in Blocks : \A k \in 1..Len(instructions[b]) :
          parent.instruction[instructions[b][k]] = b
    /\ \A k \in 1..Len(blocks) : parent.block[blocks[k]] = "function"
    /\ \A p \in functions.items : parent.function[p[2]] = "module"
    /\ \A p \in modules.items : parent.module[p[2]] = "ir"
    /\ call.op = "add_instruction" =>
          instructions = [call.before EXCEPT ![call.block] = Append(@, call.entity)]

(***************************************************************************)
(* C34 -- symbol and scope registration agree: in every state reachable by *)
(* Symbol construction with a scope, Scope.add_symbol and                  *)
(* SymbolTable.add_symbol, a symbol s has s.scope equal to scope S if and  *)
(* only if S.symbols[s.name] is s; this also holds for a symbol whose name *)
(* was re-inserted in the same scope by a later symbol.                    *)
(***************************************************************************)
C34_SymbolScopeAgree ==
    \A s \in 1..Len(symbols), S \in 1..Len(scopes) :
        symbols[s].scope = S <=> Get(scopes[S].symbols, symbols[s].name, Nil) = s

(***************************************************************************)
(* Re-entering scopes by name (core/symbol.py, SymbolTable.enter_scope).   *)
(***************************************************************************)
NextReentry == EnterNamedScope \/ ExitScope \/ AddSymbol \/ LookupSymbol

SpecReentry == InitUseDef /\ [][NextReentry]_vars

(***************************************************************************)
(* C35 -- scopes are not reused on re-entry: enter_scope(name) always      *)
(* creates a new empty child scope appended to the current scope's         *)
(* children, also when a child of that name already exists; so after       *)
(* enter_scope("f"), add_symbol("y"), exit_scope(), enter_scope("f"), a    *)
(* lookup_symbol("y", current_scope_only=True) returns an absent result    *)
(* and the parent has two children named "f".                              *)
(***************************************************************************)
\* the children of scope sc in scps that are named name
ChildrenNamed(scps, sc, name) ==
    {k \in 1..Len(scps[sc].children) : scps[scps[sc].children[k]].name = name}

C35_ScopesNotReused ==
    [][ /\ call'.op = "enter_scope" =>
             /\ Len(scopes') = Len(scopes) + 1
             /\ current_scope' = Len(scopes')
             /\ scopes'[current_scope'] =
                    [name |-> call'.name, parent |-> current_scope, children |-> <<>>,
                     symbols |-> PyDict({})]
             /\ scopes'[current_scope].children =
                    Append(scopes[current_scope].children, current_scope')
             /\ Cardinality(ChildrenNamed(scopes', current_scope, call'.name)) =
                    Cardinality(ChildrenNamed(scopes, current_scope, call'.name)) + 1
             /\ \A sc \in 1..Len(scopes) : sc # current_scope => scopes'[sc] = scopes[sc]
        /\ (call.op = "enter_scope" /\ call'.op = "lookup_symbol"
                /\ call'.current_scope_only) => call'.result = Nil
      ]_vars

\* "y" was added in a scope named "f", the scope was left and "f" entered
\* again: the lookup of "y" in the current scope alone finds nothing, and
\* the parent has two children named "f"
C35_Witness ==
    /\ call.op = "lookup_symbol"
    /\ call.name = "y"
    /\ call.current_scope_only
    /\ call.result = Nil
    /\ scopes[current_scope].name = "f"
    /\ scopes[current_scope].parent = global_scope
    /\ scopes[global_scope].children = <<2, 3>>
    /\ current_scope = 3
    /\ Cardinality(ChildrenNamed(scopes, global_scope, "f")) = 2
    /\ "y" \in Keys(scopes[2].symbols)

(***************************************************************************)
(* C36 -- analysis does not mutate its input: from the call of analyze()   *)
(* to its return, for each of the four analyses, the function's block      *)
(* list, every block's instruction list and edge sets, every instruction's *)
(* operands and users, and every CFG node's successors and predecessors    *)
(* are unchanged; only in_sets, out_sets and the analysis's own            *)
(* bookkeeping (killed_vars) change.                                       *)
(***************************************************************************)
C36_AnalysisKeepsItsInput ==
    [][ /\ function' = function
        /\ cfg' = cfg
        /\ operands' = operands
        /\ users' = users
        /\ predecessors' = predecessors
        /\ successors' = successors
      ]_vars

\* a live-variable analysis has returned on a function with an edge and a
\* block of two different instructions, its in sets no longer all empty
C36_Witness ==
    /\ analysis = "LiveVariable"
    /\ Returned
    /\ steps > Cardinality(Nodes)
    /\ \E b \in DOMAIN function.blocks :
          /\ Len(function.blocks[b].instructions) = 2
          /\ function.blocks[b].instructions[1] # function.blocks[b].instructions[2]
          /\ function.blocks[b].successors # {}
    /\ \E n \in Nodes : in_sets[n] # initial_data(analysis)

(***************************************************************************)
(* CFG construction over blocks whose edge sets were filled directly, as   *)
(* test_control_flow_graph fills them: block.successors.add(...) and       *)
(* block.predecessors.add(...) are operations of the two sets, and neither *)
(* touches the other block.                                                *)
(***************************************************************************)
MaxDirectEntries == 3    \* entries written into the edge sets directly

DirectEntries ==
    Cardinality(Edges(successors)) + Cardinality(Edges(predecessors))

\* block.successors.add(succ)
FillSuccessors ==
    /\ call = NoCall
    /\ DirectEntries < MaxDirectEntries
    /\ \E b \in Blocks, succ \in Blocks :
          successors' = [successors EXCEPT ![b] = @ \cup {succ}]
    /\ UNCHANGED <<irVars, predecessors, dfVars, restVars>>

\* block.predecessors.add(pred)
FillPredecessors ==
    /\ call = NoCall
    /\ DirectEntries < MaxDirectEntries
    /\ \E b \in Blocks, pred \in Blocks :
          predecessors' = [predecessors EXCEPT ![b] = @ \cup {pred}]
    /\ UNCHANGED <<irVars, successors, dfVars, restVars>>

NextDirect == FillSuccessors \/ FillPredecessors \/ AddBlock \/ BuildCFG

SpecDirect == InitUseDef /\ [][NextDirect]_vars

(***************************************************************************)
(* C37 -- CFG node edges are symmetric whatever the block graph looks      *)
(* like: for every function for which ControlFlowGraph construction        *)
(* completes, including one whose blocks' predecessors and successors sets *)
(* were filled directly and do not mirror each other, node t is in node    *)
(* s's successors if and only if s is in t's predecessors, and the node    *)
(* edges are exactly the block-level successor edges (block-level          *)
(* predecessor sets are not read).                                         *)
(***************************************************************************)
C37_NodeEdgesSymmetric ==
    (call.op = "ControlFlowGraph" /\ raised = "none") =>
        /\ \A s \in get_nodes(cfg) :
              /\ cfg.successors[s] \subseteq get_nodes(cfg)
              /\ cfg.predecessors[s] \subseteq get_nodes(cfg)
        /\ \A s \in get_nodes(cfg), t \in get_nodes(cfg) :
              /\ (t \in cfg.successors[s]) <=> (s \in cfg.predecessors[t])
              /\ (t \in cfg.successors[s]) <=> (t \in successors[s])

\* a graph was constructed for blocks of which one has a successor that
\* does not list it as a predecessor and one lists a predecessor that does
\* not have it as a successor
C37_Witness ==
    /\ call.op = "ControlFlowGraph"
    /\ raised = "none"
    /\ \E a \in Range(blocks), b \in Range(blocks) :
          /\ b \in successors[a]
          /\ a \notin predecessors[b]
          /\ b \in cfg.successors[a]
    /\ \E a \in Range(blocks), b \in Range(blocks) :
          /\ a \in predecessors[b]
          /\ b \notin successors[a]
          /\ a \notin cfg.predecessors[b]

====
